---- MODULE Spec2Model ----
(***************************************************************************)
(* A model of lens-barrel-preview: the lens silhouette geometry of         *)
(* src/renderer/lens.ts, the card sizing of src/renderer/card.ts and the   *)
(* grid of src/renderer/grid.ts.                                           *)
(*                                                                         *)
(* Numbers.  The program computes in JavaScript numbers.  The model keeps  *)
(* millimetres, the lens scale and the canvas size as integers and every   *)
(* pixel coordinate as an exact integer count of 1/Unit pixel, Unit being  *)
(* chosen so that each division the geometry performs (by 2, by the bump   *)
(* count and bump count + 1, by 100 for the percentages) is exact.  The    *)
(* model is therefore the program over exact arithmetic; rounding of       *)
(* IEEE doubles, NaN and infinities are outside it.                        *)
(***************************************************************************)
EXTENDS Integers, Sequences, FiniteSets

VARIABLES
    pc,         \* position of the calls being modelled: "call" before, "done" after
    polyArgs,   \* the arguments of the calculateLensPolygon call
    points,     \* the Point[] that call returned (<<>> before it returns)
    heightArgs, \* two lens batches and the render options they are sized with
    heights,    \* what calculateNormalizedCardHeight returned for the batches sized so far
    gridArgs,   \* the arguments of the latest createGrid call (NoCall before the first)
    container,  \* the children of the element createGrid renders into
    head,       \* the elements of document.head that have an id
    calls,      \* the calls of the two pure functions made so far, with what each returned
    colorArgs,  \* the render options and the tags a card is coloured with
    color,      \* the background colour that card was given
    aside,      \* the children of a second element preview can render into
    previewCall,\* the latest preview call: its arguments, the steps it took, how it ended
    tables,     \* the table elements of the document, in document order
    scraped     \* how the getLensesFromFirstQualifyingTable call ended

(***************************************************************************)
(* Bounds of the inputs (millimetres, scale factor, canvas pixels).  Every *)
(* range starts at -1 so that zero and negative arguments occur too.  The  *)
(* lengths are the short ones, around the length of the step, and three   *)
(* long ones, for which the 5 mm bump transition is shorter than 90% of a  *)
(* segment.                                                                *)
(***************************************************************************)
MaxDiameter == 11
MaxShortLength == 4
MaxLength == 20
MaxStepDistance == 1
MaxStepLength == 1
MaxMountDiameter == 10
MaxLensScale == 2
MaxCanvasWidth == 25
MaxCanvasHeight == 27
MaxBatchLength == 4
MaxLenses == 2
MaxCardWidth == 4
MaxGridLenses == 2
MaxCalls == 3
MaxMappingKeys == 2
MaxTags == 2
MaxPreviewLenses == 2
MaxTables == 2
MaxRows == 2

(***************************************************************************)
(* renderer/constants.ts.  The two fractions are kept in hundredths:       *)
(* INITIAL_STEP_PERCENT = 0.9 is 90, INITIAL_STEP_INTENSITY = 0.95 is 95.  *)
(***************************************************************************)
BUMP_TRANSITION_MM == 5
DEFAULT_BUMP_COUNT == 2
INITIAL_STEP_INTENSITY == 95
INITIAL_STEP_PERCENT == 90

\* const bumpCount: number = DEFAULT_BUMP_COUNT
bumpCount == DEFAULT_BUMP_COUNT

\* Pixel coordinates are integers counting 1/Unit pixel.
Unit == 2 * 20 * DEFAULT_BUMP_COUNT * (DEFAULT_BUMP_COUNT + 1)

Max(a, b) == IF a >= b THEN a ELSE b
Min(a, b) == IF a <= b THEN a ELSE b

\* A Point of types.ts.
Point(px, py) == [x |-> px, y |-> py]

\* Math.max(1, Math.floor(bumpCount || DEFAULT_BUMP_COUNT)); bumpCount is an integer.
effectiveBumpCount == Max(1, IF bumpCount = 0 THEN DEFAULT_BUMP_COUNT ELSE bumpCount)

\* A slip: the interpolation starts at the initial intensity, (i - 1) for i.
newRadiusFromInitialIntensity(i, diameterPx) ==
    ((INITIAL_STEP_INTENSITY * effectiveBumpCount + (i - 1) * (100 - INITIAL_STEP_INTENSITY))
        * diameterPx) \div (100 * effectiveBumpCount * 2)

\* targetPercent * diameterPx / 2 for bump i, with
\* targetPercent = initialBumpIntensity + (i / effectiveBumpCount) * (1 - initialBumpIntensity).
newRadius(i, diameterPx) ==
    ((INITIAL_STEP_INTENSITY * effectiveBumpCount + i * (100 - INITIAL_STEP_INTENSITY)) * diameterPx)
        \div (100 * effectiveBumpCount * 2)

\* A slip: the initial step is taken at the full diameter, the 90% forgotten.
initialStepRadiusOfFullDiameter(diameterPx) == diameterPx \div 2

\* (INITIAL_STEP_PERCENT * diameterPx) / 2
initialStepRadiusOf(diameterPx) == (INITIAL_STEP_PERCENT * diameterPx) \div (100 * 2)

\* A slip: the remaining length is divided by the bump count, not by bump count + 1.
bumpProfileSegmentPerBump(diameterPx, lensScale, remainingLength, stepEndY, frontY) ==
    LET n == effectiveBumpCount
        segmentLength == remainingLength \div n
        desiredTransitionPx == BUMP_TRANSITION_MM * lensScale * Unit
        bumpTransitionLength ==
            Min(desiredTransitionPx, (segmentLength * INITIAL_STEP_PERCENT) \div 100)
        initialStepRadius == initialStepRadiusOf(diameterPx)
        transitionEndY(i) == stepEndY - segmentLength * i
        transitionStartY(i) == transitionEndY(i) + bumpTransitionLength
        prevRadius(i) == IF i = 1 THEN initialStepRadius ELSE newRadius(i - 1, diameterPx)
    IN  [k \in 1..(2 * n + 2) |->
            IF k = 1 THEN [radius |-> initialStepRadius, y |-> stepEndY]
            ELSE IF k = 2 * n + 2 THEN [radius |-> diameterPx \div 2, y |-> frontY]
            ELSE IF k % 2 = 0
                 THEN [radius |-> prevRadius(k \div 2), y |-> transitionStartY(k \div 2)]
                 ELSE [radius |-> newRadius(k \div 2, diameterPx), y |-> transitionEndY(k \div 2)]]

\* A slip: the transition is not capped at 90% of the segment.
bumpProfileUncapped(diameterPx, lensScale, remainingLength, stepEndY, frontY) ==
    LET n == effectiveBumpCount
        segmentLength == remainingLength \div (n + 1)
        bumpTransitionLength == BUMP_TRANSITION_MM * lensScale * Unit
        initialStepRadius == initialStepRadiusOf(diameterPx)
        transitionEndY(i) == stepEndY - segmentLength * i
        transitionStartY(i) == transitionEndY(i) + bumpTransitionLength
        prevRadius(i) == IF i = 1 THEN initialStepRadius ELSE newRadius(i - 1, diameterPx)
    IN  [k \in 1..(2 * n + 2) |->
            IF k = 1 THEN [radius |-> initialStepRadius, y |-> stepEndY]
            ELSE IF k = 2 * n + 2 THEN [radius |-> diameterPx \div 2, y |-> frontY]
            ELSE IF k % 2 = 0
                 THEN [radius |-> prevRadius(k \div 2), y |-> transitionStartY(k \div 2)]
                 ELSE [radius |-> newRadius(k \div 2, diameterPx), y |-> transitionEndY(k \div 2)]]

\* The bump profile of the stepped branch: the (radius, y) pairs pushed between the
\* step end and the front of the lens, in the order the loop pushes them.
bumpProfile(diameterPx, lensScale, remainingLength, stepEndY, frontY) ==
    LET n == effectiveBumpCount
        segmentLength == remainingLength \div (n + 1)
        desiredTransitionPx == BUMP_TRANSITION_MM * lensScale * Unit
        bumpTransitionLength ==
            Min(desiredTransitionPx, (segmentLength * INITIAL_STEP_PERCENT) \div 100)
        initialStepRadius == initialStepRadiusOf(diameterPx)
        transitionEndY(i) == stepEndY - segmentLength * i
        transitionStartY(i) == transitionEndY(i) + bumpTransitionLength
        prevRadius(i) == IF i = 1 THEN initialStepRadius ELSE newRadius(i - 1, diameterPx)
    IN  [k \in 1..(2 * n + 2) |->
            IF k = 1 THEN [radius |-> initialStepRadius, y |-> stepEndY]
            ELSE IF k = 2 * n + 2 THEN [radius |-> diameterPx \div 2, y |-> frontY]
            ELSE IF k % 2 = 0
                 THEN [radius |-> prevRadius(k \div 2), y |-> transitionStartY(k \div 2)]
                 ELSE [radius |-> newRadius(k \div 2, diameterPx), y |-> transitionEndY(k \div 2)]]

\* A slip: the right side walks the profile in the order it was built, mount to front.
ReverseOmitted(s) == s

\* The reverse of a sequence (the right side walks the profile from its last entry down).
Reverse(s) == [k \in 1..Len(s) |-> s[Len(s) + 1 - k]]

\* A slip: the left side's expression, centerX - p.radius, copied to the right side.
rightProfilePointsAsLeft(centerX, profile) ==
    [k \in 1..Len(profile) |->
        Point(centerX - Reverse(profile)[k].radius, Reverse(profile)[k].y)]

\* A slip: the right side walks the profile upward, i from 0 to profile.length - 1.
rightProfilePointsAscending(centerX, profile) ==
    [k \in 1..Len(profile) |-> Point(centerX + profile[k].radius, profile[k].y)]

\* A slip: the right side starts below the profile's last entry (i from profile.length - 2).
rightProfilePointsWithoutFront(centerX, profile) ==
    [k \in 1..(Len(profile) - 1) |->
        Point(centerX + profile[Len(profile) - k].radius, profile[Len(profile) - k].y)]

\* The right side going down: the profile mirrored, from its last entry to its first.
rightProfilePoints(centerX, profile) ==
    [k \in 1..Len(profile) |->
        Point(centerX + Reverse(profile)[k].radius, Reverse(profile)[k].y)]

\* A slip: the step is taken to fit when it uses the whole length (<= for <).
shouldApplySteppingInclusive(diameter, length, mountSpec, lensScale) ==
    /\ diameter > mountSpec.mountOuterDiameter
    /\ INITIAL_STEP_PERCENT * diameter > 100 * mountSpec.mountOuterDiameter
    /\ mountSpec.stepDistance * lensScale * Unit + mountSpec.stepLength * lensScale * Unit
           <= length * lensScale * Unit

\* A slip: the test that the step fits in the length is left out.
shouldApplySteppingAnyLength(diameter, length, mountSpec, lensScale) ==
    /\ diameter > mountSpec.mountOuterDiameter
    /\ INITIAL_STEP_PERCENT * diameter > 100 * mountSpec.mountOuterDiameter

\* needsStepping && initialStepDiameter > mountOuterDiameter
\*   && (stepDistancePx + stepLengthPx < lengthPx)
shouldApplyStepping(diameter, length, mountSpec, lensScale) ==
    /\ diameter > mountSpec.mountOuterDiameter
    /\ INITIAL_STEP_PERCENT * diameter > 100 * mountSpec.mountOuterDiameter
    /\ mountSpec.stepDistance * lensScale * Unit + mountSpec.stepLength * lensScale * Unit
           < length * lensScale * Unit

\* The stepped branch of calculateLensPolygon.
steppedPolygon(diameter, length, mountSpec, lensScale, canvasWidth, canvasHeight) ==
    LET centerX == (canvasWidth * Unit) \div 2
        mountY == canvasHeight * Unit
        diameterPx == diameter * lensScale * Unit
        lengthPx == length * lensScale * Unit
        stepDistancePx == mountSpec.stepDistance * lensScale * Unit
        stepLengthPx == mountSpec.stepLength * lensScale * Unit
        minDiameterPx == mountSpec.mountOuterDiameter * lensScale * Unit
        fullRadius == diameterPx \div 2
        minRadius == minDiameterPx \div 2
        backY == mountY
        frontY == mountY - lengthPx
        stepStartY == mountY - stepDistancePx
        stepEndY == mountY - stepDistancePx - stepLengthPx
        initialStepRadius == initialStepRadiusOf(diameterPx)
        remainingLength == lengthPx - (stepDistancePx + stepLengthPx)
        profile == IF remainingLength > 0
                   THEN bumpProfile(diameterPx, lensScale, remainingLength, stepEndY, frontY)
                   ELSE <<>>
        left == IF remainingLength > 0
                THEN [k \in 1..Len(profile) |-> Point(centerX - profile[k].radius, profile[k].y)]
                ELSE <<Point(centerX - fullRadius, frontY)>>
        right == rightProfilePoints(centerX, profile)
    IN  <<Point(centerX - minRadius, backY), Point(centerX - minRadius, stepStartY)>>
        \o left
        \o <<Point(centerX + fullRadius, frontY)>>
        \o right
        \o <<Point(centerX + initialStepRadius, stepEndY),
             Point(centerX + minRadius, stepStartY),
             Point(centerX + minRadius, backY)>>

\* The rectangle between the mount line and frontY, of half-width radius, in the order
\* the else branch pushes its corners.
rectangleCorners(centerX, radius, backY, frontY) ==
    <<Point(centerX - radius, backY), Point(centerX - radius, frontY),
      Point(centerX + radius, frontY), Point(centerX + radius, backY)>>

\* A slip: the mount radius is used for every lens, needsStepping or not.
rectanglePolygonMountFloor(diameter, length, mountSpec, lensScale, canvasWidth, canvasHeight) ==
    rectangleCorners((canvasWidth * Unit) \div 2,
                     (mountSpec.mountOuterDiameter * lensScale * Unit) \div 2,
                     canvasHeight * Unit, canvasHeight * Unit - length * lensScale * Unit)

\* A slip: the lens's own radius is used for every lens, needsStepping or not.
rectanglePolygonOwnRadius(diameter, length, mountSpec, lensScale, canvasWidth, canvasHeight) ==
    rectangleCorners((canvasWidth * Unit) \div 2, (diameter * lensScale * Unit) \div 2,
                     canvasHeight * Unit, canvasHeight * Unit - length * lensScale * Unit)

\* A slip: the lens grows downward from the mount line (frontY = mountY + lengthPx).
rectanglePolygonDownward(diameter, length, mountSpec, lensScale, canvasWidth, canvasHeight) ==
    rectangleCorners((canvasWidth * Unit) \div 2,
                     IF diameter > mountSpec.mountOuterDiameter
                     THEN (mountSpec.mountOuterDiameter * lensScale * Unit) \div 2
                     ELSE (diameter * lensScale * Unit) \div 2,
                     canvasHeight * Unit, canvasHeight * Unit + length * lensScale * Unit)

\* A slip: the corner order of the earlier renderer (back left, back right, front right,
\* front left), which winds the other way.
rectanglePolygonOldOrder(diameter, length, mountSpec, lensScale, canvasWidth, canvasHeight) ==
    LET centerX == (canvasWidth * Unit) \div 2
        radius == IF diameter > mountSpec.mountOuterDiameter
                  THEN (mountSpec.mountOuterDiameter * lensScale * Unit) \div 2
                  ELSE (diameter * lensScale * Unit) \div 2
        backY == canvasHeight * Unit
        frontY == canvasHeight * Unit - length * lensScale * Unit
    IN  <<Point(centerX - radius, backY), Point(centerX + radius, backY),
          Point(centerX + radius, frontY), Point(centerX - radius, frontY)>>

\* The else branch of calculateLensPolygon: the simple rectangle.
rectanglePolygon(diameter, length, mountSpec, lensScale, canvasWidth, canvasHeight) ==
    LET centerX == (canvasWidth * Unit) \div 2
        mountY == canvasHeight * Unit
        fullRadius == (diameter * lensScale * Unit) \div 2
        minRadius == (mountSpec.mountOuterDiameter * lensScale * Unit) \div 2
        backY == mountY
        frontY == mountY - length * lensScale * Unit
        needsStepping == diameter > mountSpec.mountOuterDiameter
        radius == IF needsStepping THEN minRadius ELSE fullRadius
    IN  rectangleCorners(centerX, radius, backY, frontY)

\* A slip: a lens without a positive diameter is given no outline.
calculateLensPolygonPositiveOnly(diameter, length, mountSpec, lensScale, canvasWidth, canvasHeight) ==
    IF diameter <= 0 THEN <<>>
    ELSE IF shouldApplyStepping(diameter, length, mountSpec, lensScale)
    THEN steppedPolygon(diameter, length, mountSpec, lensScale, canvasWidth, canvasHeight)
    ELSE rectanglePolygon(diameter, length, mountSpec, lensScale, canvasWidth, canvasHeight)

\* calculateLensPolygon: the stepped outline when shouldApplyStepping, else the rectangle.
calculateLensPolygon(diameter, length, mountSpec, lensScale, canvasWidth, canvasHeight) ==
    IF shouldApplyStepping(diameter, length, mountSpec, lensScale)
    THEN steppedPolygon(diameter, length, mountSpec, lensScale, canvasWidth, canvasHeight)
    ELSE rectanglePolygon(diameter, length, mountSpec, lensScale, canvasWidth, canvasHeight)

(***************************************************************************)
(* The calls of calculateLensPolygon.                                      *)
(***************************************************************************)
MountSpecs ==
    [stepDistance : -1..MaxStepDistance,
     stepLength : -1..MaxStepLength,
     mountOuterDiameter : -1..MaxMountDiameter]

\* The canvas sizes: an odd and an even width, two heights.
Canvases ==
    {[width |-> MaxCanvasWidth - 1, height |-> MaxCanvasHeight],
     [width |-> MaxCanvasWidth, height |-> MaxCanvasHeight - 1]}

\* The mount of the default camera (index.ts, DEFAULT_CAMERA_CONFIG.mountSpec).
DefaultMountSpec == [stepDistance |-> 10, stepLength |-> 15, mountOuterDiameter |-> 62]

\* The two calls the specification gives as examples, at their real size.
ExampleRectangleArgs ==
    [diameter |-> 62, length |-> 70, mountSpec |-> DefaultMountSpec, lensScale |-> 1,
     canvas |-> [width |-> 300, height |-> 300]]

ExampleSteppedArgs ==
    [diameter |-> 88, length |-> 136, mountSpec |-> DefaultMountSpec, lensScale |-> 1,
     canvas |-> [width |-> 300, height |-> 408]]

LengthsMm == (-1..MaxShortLength) \cup ((MaxLength - 2)..MaxLength)

PolygonArgs ==
    [diameter : -1..MaxDiameter,
     length : LengthsMm,
     mountSpec : MountSpecs,
     lensScale : -1..MaxLensScale,
     canvas : Canvases]
    \cup {ExampleRectangleArgs, ExampleSteppedArgs}

vars == <<pc, polyArgs, points, heightArgs, heights, gridArgs, container, head,
          calls, colorArgs, color, aside, previewCall, tables, scraped>>

\* The variables of the colouring, of preview and of the table reading.
colorVars == <<colorArgs, color>>
previewVars == <<aside, previewCall>>
tableVars == <<tables, scraped>>

\* The value of the variables a specification does not use.
NoCall == [none |-> TRUE]

\* No call of the pure functions is recorded, nothing is coloured, previewed or read.
OthersIdle ==
    /\ calls = <<>>
    /\ colorArgs = NoCall
    /\ color = NoCall
    /\ aside = <<>>
    /\ previewCall = NoCall
    /\ tables = <<>>
    /\ scraped = NoCall

InitPolygon ==
    /\ pc = "call"
    /\ polyArgs \in PolygonArgs
    /\ points = <<>>
    /\ heightArgs = NoCall
    /\ heights = <<>>
    /\ gridArgs = NoCall
    /\ container = <<>>
    /\ head = <<>>
    /\ OthersIdle

\* One call of calculateLensPolygon(diameter, length, mountSpec, lensScale, canvasWidth, canvasHeight).
CallCalculateLensPolygon ==
    /\ pc = "call"
    /\ points' = calculateLensPolygon(polyArgs.diameter, polyArgs.length, polyArgs.mountSpec,
                                      polyArgs.lensScale, polyArgs.canvas.width,
                                      polyArgs.canvas.height)
    /\ pc' = "done"
    /\ UNCHANGED <<polyArgs, heightArgs, heights, gridArgs, container, head, calls,
                   colorVars, previewVars, tableVars>>

NextPolygon == CallCalculateLensPolygon

SpecPolygon == InitPolygon /\ [][NextPolygon]_vars

(***************************************************************************)
(* renderer/card.ts: the card sizing.                                      *)
(***************************************************************************)
\* Math.max(...values) of a non-empty set of numbers.
MathMax(values) == CHOOSE m \in values : \A v \in values : v <= m

\* Math.ceil(num / den) for den > 0.
CeilDiv(num, den) == 0 - ((0 - num) \div den)

\* A slip: the length of the last lens is taken for the maximum.
maxLensLengthOfLast(lenses) == lenses[Len(lenses)].length

\* Math.max(...lenses.map(lens => lens.length))
maxLensLength(lenses) == MathMax({lenses[i].length : i \in 1..Len(lenses)})

\* A slip: the 20% margin is left out of the card height.
calculateNormalizedCardHeightNoMargin(lenses, renderOptions) ==
    CeilDiv(Max(maxLensLength(lenses) * renderOptions.lensScale * 10,
                renderOptions.cardWidth * 10), 10)

\* A slip: the margin and the minimum are combined with Math.min.
calculateNormalizedCardHeightMin(lenses, renderOptions) ==
    CeilDiv(Min(maxLensLength(lenses) * renderOptions.lensScale * 12,
                renderOptions.cardWidth * 10), 10)

\* Math.ceil(Math.max(maxLensLengthPx * 1.2, renderOptions.cardWidth)), the two
\* arguments of Math.max counted in tenths of a pixel.
calculateNormalizedCardHeight(lenses, renderOptions) ==
    LET maxLensLengthPx == maxLensLength(lenses) * renderOptions.lensScale
        normalizedHeightTenths == Max(maxLensLengthPx * 12, renderOptions.cardWidth * 10)
    IN  CeilDiv(normalizedHeightTenths, 10)

\* Math.ceil(lensLengthPx * 1.2)
calculateLensSvgHeight(lens, lensScale) == CeilDiv(lens.length * lensScale * 12, 10)

\* A Lens of types.ts: its diameter and length (label and tags are not sized).
Lens(d, l) == [diameter |-> d, length |-> l]

\* The non-empty batches of at most n lenses with lengths from -1 to MaxBatchLength.
BatchLenses == {Lens(MaxDiameter, l) : l \in -1..MaxBatchLength}

Batches(n) == UNION {[1..k -> BatchLenses] : k \in 1..n}

\* The batch of the specification's example: lengths 70, 136 and 193.
ExampleBatch == <<Lens(62, 70), Lens(88, 136), Lens(88, 193)>>

HeightArgs ==
    [batches : Batches(MaxLenses) \X Batches(1),
     renderOptions : [cardWidth : -1..MaxCardWidth, lensScale : -1..MaxLensScale]]
    \cup {[batches |-> <<ExampleBatch, <<Lens(88, 193)>>>>,
           renderOptions |-> [cardWidth |-> 300, lensScale |-> 1]]}

InitHeight ==
    /\ pc = "call"
    /\ heightArgs \in HeightArgs
    /\ heights = <<>>
    /\ polyArgs = NoCall
    /\ points = <<>>
    /\ gridArgs = NoCall
    /\ container = <<>>
    /\ head = <<>>
    /\ OthersIdle

\* One call of calculateNormalizedCardHeight(lenses, renderOptions): the first batch is
\* sized, then the second, with the same render options.
CallCalculateNormalizedCardHeight ==
    /\ pc = "call"
    /\ heights' = Append(heights,
                         calculateNormalizedCardHeight(heightArgs.batches[Len(heights) + 1],
                                                       heightArgs.renderOptions))
    /\ pc' = IF Len(heights) + 1 = 2 THEN "done" ELSE "call"
    /\ UNCHANGED <<heightArgs, polyArgs, points, gridArgs, container, head, calls,
                   colorVars, previewVars, tableVars>>

NextHeight == CallCalculateNormalizedCardHeight

SpecHeight == InitHeight /\ [][NextHeight]_vars

(***************************************************************************)
(* renderer/grid.ts and renderer/utils.ts: the grid of cards.  An element  *)
(* is a record of the properties the program sets that are modelled; the   *)
(* fixed style properties (display, padding, colours, shadows) are not.    *)
(***************************************************************************)
DEFAULT_CARD_WIDTH == 300

\* An optional property is the set of its values: empty when the caller left it out.
Undefined == {}

\* value ?? fallback
Nullish(value, fallback) == IF value = Undefined THEN fallback ELSE CHOOSE v \in value : TRUE

\* DEFAULT_BACKGROUND_COLOR is imported from renderer/constants; the colour itself is
\* not needed, only that it is a colour of its own.
DEFAULT_BACKGROUND_COLOR == "DEFAULT_BACKGROUND_COLOR"

\* The strings tags and mapping keys are drawn from, and what toLowerCase makes of each.
TagStrings == {"owned", "Owned", "wide", "constructor"}

toLowerCase(str) ==
    CASE str = "Owned" -> "owned"
      [] str = "Wide" -> "wide"
      [] str = "Diameter (mm)" -> "diameter (mm)"
      [] str = "Max diameter" -> "max diameter"
      [] str = "Model" -> "model"
      [] str = "Owner" -> "owner"
      [] OTHER -> str

\* An object created by {} is the sequence of its own entries in insertion order, one per
\* key.  It inherits the properties of Object.prototype; of the strings above only
\* "constructor" names one, and its value is a function.
ObjectPrototypeKeys == {"constructor"}

InheritedValue == "function Object() { [native code] }"

HasOwn(obj, key) == \E i \in 1..Len(obj) : obj[i].key = key

\* obj[key]: the own value, else the inherited one, else undefined.
Get(obj, key) ==
    IF HasOwn(obj, key)
    THEN {obj[CHOOSE i \in 1..Len(obj) : obj[i].key = key].value}
    ELSE IF key \in ObjectPrototypeKeys THEN {InheritedValue}
    ELSE Undefined

\* obj[key] = value: an own key keeps its place and takes the value, a new one is appended.
Set(obj, key, value) ==
    IF HasOwn(obj, key)
    THEN [i \in 1..Len(obj) |-> IF obj[i].key = key THEN [key |-> key, value |-> value]
                                 ELSE obj[i]]
    ELSE Append(obj, [key |-> key, value |-> value])

\* A value is truthy: it is there and it is not the empty string.
Truthy(value) == value # Undefined /\ value # {""}

\* The loop of enrichRenderOptions over the first k entries of rawMapping:
\* backgroundColorMapping[key.toLowerCase()] = value.
RECURSIVE lowercasedMapping(_, _)
lowercasedMapping(rawMapping, k) ==
    IF k = 0 THEN <<>>
    ELSE Set(lowercasedMapping(rawMapping, k - 1),
             toLowerCase(rawMapping[k].key), rawMapping[k].value)

\* cardWidth ?? DEFAULT_CARD_WIDTH, lensScale ?? 1, and the mapping with lowercased keys
enrichRenderOptions(renderOptions) ==
    LET rawMapping == Nullish(renderOptions.backgroundColorMapping, <<>>)
    IN  [cardWidth |-> Nullish(renderOptions.cardWidth, DEFAULT_CARD_WIDTH),
         lensScale |-> Nullish(renderOptions.lensScale, 1),
         backgroundColorMapping |-> lowercasedMapping(rawMapping, Len(rawMapping))]

\* The loop of getBackgroundColor from tag k on: the first truthy mapping value wins.
RECURSIVE firstMappedColor(_, _, _)
firstMappedColor(renderOptions, tags, k) ==
    IF k > Len(tags) THEN DEFAULT_BACKGROUND_COLOR
    ELSE LET value == Get(renderOptions.backgroundColorMapping, toLowerCase(tags[k]))
         IN  IF Truthy(value) THEN CHOOSE v \in value : TRUE
             ELSE firstMappedColor(renderOptions, tags, k + 1)

getBackgroundColor(renderOptions, tags) == firstMappedColor(renderOptions, tags, 1)

\* lens.tags, undefined for a lens without the property.
lensTags(lens) == IF "tags" \in DOMAIN lens THEN {lens.tags} ELSE Undefined

\* A slip: renderLensShapeSVG is passed the SVG height for the width and the card width
\* for the height.
createPreviewCardSwappedCanvas(lens, camera, renderOptions) ==
    LET lensSvgHeight == calculateLensSvgHeight(lens, renderOptions.lensScale)
    IN  [className |-> "lens-preview-card-wrapper",
         lens |-> lens,
         lensSvgHeight |-> lensSvgHeight,
         points |-> calculateLensPolygon(lens.diameter, lens.length, camera.mountSpec,
                                         renderOptions.lensScale, lensSvgHeight,
                                         renderOptions.cardWidth),
         style |-> [backgroundColor |-> Undefined, minHeight |-> Undefined]]

\* createPreviewCard: the card wrapper of one lens, with the lens SVG of height
\* lensSvgHeight and the polygon renderLensShapeSVG draws into it.
createPreviewCard(lens, camera, renderOptions) ==
    LET lensSvgHeight == calculateLensSvgHeight(lens, renderOptions.lensScale)
    IN  [className |-> "lens-preview-card-wrapper",
         lens |-> lens,
         lensSvgHeight |-> lensSvgHeight,
         points |-> calculateLensPolygon(lens.diameter, lens.length, camera.mountSpec,
                                         renderOptions.lensScale, renderOptions.cardWidth,
                                         lensSvgHeight),
         style |-> [backgroundColor |-> Undefined, minHeight |-> Undefined]]

\* A slip: the card is given the height of its own lens SVG.
applyCardStylesOwnHeight(card, renderOptions, cardHeight, tags) ==
    [card EXCEPT !.style =
        [backgroundColor |-> getBackgroundColor(renderOptions, Nullish(tags, <<>>)),
         minHeight |-> card.lensSvgHeight + 60]]

\* card.style.backgroundColor = getBackgroundColor(renderOptions, tags ?? []) and
\* card.style.minHeight = `${cardHeight + 60}px`
applyCardStyles(card, renderOptions, cardHeight, tags) ==
    [card EXCEPT !.style =
        [backgroundColor |-> getBackgroundColor(renderOptions, Nullish(tags, <<>>)),
         minHeight |-> cardHeight + 60]]

\* The style element injectStyles creates: its id and its rules (the style text).
styleElement ==
    [id |-> "lens-preview-styles", rules |-> "lens-preview rules", children |-> <<>>]

\* A slip: the style element is appended on every call.
injectStylesUnguarded(headElements) == Append(headElements, styleElement)

\* injectStyles: the style element is appended to the head unless the document has an
\* element with its id.
injectStyles(headElements) ==
    IF \E i \in 1..Len(headElements) : headElements[i].id = "lens-preview-styles"
    THEN headElements
    ELSE Append(headElements, styleElement)

\* The grid element createGrid builds: one card per lens, in the order of the lenses,
\* each styled with the one cardHeight computed from the whole list.
gridElement(lenses, camera, renderOptions) ==
    LET enrichedRenderOptions == enrichRenderOptions(renderOptions)
        cardHeight == calculateNormalizedCardHeight(lenses, enrichedRenderOptions)
    IN  [className |-> "lens-preview-grid",
         minColumnWidth |-> enrichedRenderOptions.cardWidth,
         children |->
            [i \in 1..Len(lenses) |->
                applyCardStyles(createPreviewCard(lenses[i], camera, enrichedRenderOptions),
                                enrichedRenderOptions, cardHeight, lensTags(lenses[i]))]]

\* The lenses, cameras and render options of the createGrid calls.  preview passes a
\* non-empty lens array and an enriched camera.
LensCatalog == {Lens(40, 20), Lens(62, 70), Lens(88, 136), Lens(88, 193), Lens(70, 260)}

GridBatches == UNION {[1..k -> LensCatalog] : k \in 1..MaxGridLenses}

Cameras == {[mountSpec |-> DefaultMountSpec]}

PartialRenderOptions ==
    [cardWidth : {Undefined, {200}}, lensScale : {Undefined, {2}},
     backgroundColorMapping : {Undefined}]

Init ==
    /\ pc = "idle"
    /\ polyArgs = NoCall
    /\ points = <<>>
    /\ heightArgs = NoCall
    /\ heights = <<>>
    /\ gridArgs = NoCall
    /\ container = <<>>
    /\ head = <<>>
    /\ OthersIdle

\* createGrid(container, lenses, camera, renderOptions)
createGrid(lenses, camera, renderOptions) ==
    /\ gridArgs' = [lenses |-> lenses, camera |-> camera, renderOptions |-> renderOptions]
    /\ container' = <<gridElement(lenses, camera, renderOptions)>>
    /\ head' = injectStyles(head)
    /\ UNCHANGED <<pc, polyArgs, points, heightArgs, heights, calls,
                   colorVars, previewVars, tableVars>>

Next ==
    \E lenses \in GridBatches, camera \in Cameras, renderOptions \in PartialRenderOptions :
        createGrid(lenses, camera, renderOptions)

Spec == Init /\ [][Next]_vars

(***************************************************************************)
(* createGrid over small numbers: lens lengths from -1, mounts whose step  *)
(* distance and step length are negative, zero or positive, scales and     *)
(* card widths of either sign, one call for each.                          *)
(***************************************************************************)
CardCameras ==
    {[mountSpec |-> [stepDistance |-> sd, stepLength |-> sl, mountOuterDiameter |-> 9]] :
        sd \in -1..1, sl \in -1..1}

CardRenderOptions ==
    [cardWidth : {{-25}, {1}, {25}}, lensScale : {Undefined, {-1}, {2}},
     backgroundColorMapping : {Undefined}]

\* One createGrid call into the empty container.
NextCard ==
    /\ gridArgs = NoCall
    /\ \E lenses \in Batches(MaxGridLenses), camera \in CardCameras,
          renderOptions \in CardRenderOptions :
           createGrid(lenses, camera, renderOptions)

SpecCard == Init /\ [][NextCard]_vars

(***************************************************************************)
(* index.ts: preview.  The document has two elements with an id, "app"     *)
(* (its children are container) and "aside", and its head, where the style *)
(* element is once it is injected; getElementById finds that one too.      *)
(* previewCall records the latest preview call: the arguments, the steps   *)
(* it went through and how it ended.                                       *)
(***************************************************************************)
ElementIds == {"app", "aside"}

\* DEFAULT_CAMERA_CONFIG; the transform in hundredths.
DEFAULT_CAMERA_CONFIG ==
    [mountSpec |-> DefaultMountSpec,
     transform |-> {[scale |-> 185, translateX |-> 1350, translateY |-> 1500]}]

\* enrichCameraConfig: scale = 1, translateX = 0, translateY = 0 where transform or one of
\* them is missing; the rest of the camera as given.
enrichCameraConfig(camera) ==
    [camera EXCEPT !.transform =
        Nullish(camera.transform, [scale |-> 100, translateX |-> 0, translateY |-> 0])]

\* The values passed as lenses: undefined, something that is not an array, an array of
\* lenses; given directly or as a function that returns one of them, or throws.
PreviewLenses == <<Lens(62, 70), Lens(88, 136)>>

\* The lens array of length k: the two lenses in turn, the last one the 62 x 70.
PreviewLensArray(k) == [i \in 1..k |-> PreviewLenses[((i + k) % 2) + 1]]

\* One lens array of each length up to MaxPreviewLenses, the empty one included.
LensArrays == {PreviewLensArray(k) : k \in 0..MaxPreviewLenses}

JsValues ==
    {[kind |-> "undefined", items |-> <<>>], [kind |-> "object", items |-> <<>>]}
    \cup [kind : {"array"}, items : LensArrays]

LensesArguments ==
    [isFunction : BOOLEAN, throws : {FALSE}, value : JsValues]
    \cup {[isFunction |-> TRUE, throws |-> TRUE, value |-> [kind |-> "undefined", items |-> <<>>]]}

ElementIdArguments == {"", "nowhere", "lens-preview-styles"} \cup ElementIds

\* !resolvedLenses || !Array.isArray(resolvedLenses) || resolvedLenses.length === 0
lensesRejected(resolvedLenses) ==
    \/ resolvedLenses.kind = "undefined"
    \/ resolvedLenses.kind # "array"
    \/ Len(resolvedLenses.items) = 0

\* document.getElementById(elementId) finds an element.
elementFound(elementId) ==
    \/ elementId \in ElementIds
    \/ \E i \in 1..Len(head) : head[i].id = elementId

\* The steps of preview up to the throw or the return, and how it ends.
previewSteps(elementId, lenses) ==
    IF elementId = "" THEN <<>>
    ELSE (IF lenses.isFunction THEN <<"lenses()">> ELSE <<>>)
         \o (IF (lenses.isFunction /\ lenses.throws) \/ lensesRejected(lenses.value) THEN <<>>
             ELSE <<"getElementById">>
                  \o (IF elementFound(elementId) THEN <<"enrichCameraConfig", "createGrid">>
                      ELSE <<>>))

previewOutcome(elementId, lenses) ==
    IF elementId = "" THEN "Error: elementId is required"
    ELSE IF lenses.isFunction /\ lenses.throws THEN "thrown by lenses()"
    ELSE IF lensesRejected(lenses.value)
         THEN "Error: lenses array is required and must not be empty"
    ELSE IF ~elementFound(elementId) THEN "Error: Element with id not found"
    ELSE "returned"

\* container.innerHTML = '' where the container is an element of the head.
clearedOf(target, headElements) ==
    [i \in 1..Len(headElements) |->
        IF headElements[i].id = target
        THEN [headElements[i] EXCEPT !.rules = "", !.children = <<>>]
        ELSE headElements[i]]

\* container.appendChild(grid) where the container is an element of the head.
appendedTo(target, grid, headElements) ==
    [i \in 1..Len(headElements) |->
        IF headElements[i].id = target
        THEN [headElements[i] EXCEPT !.children = Append(headElements[i].children, grid)]
        ELSE headElements[i]]

\* A slip: the container is not emptied before the grid is appended.
createGridOnAppending(target, lenses, camera, renderOptions) ==
    /\ gridArgs' = [lenses |-> lenses, camera |-> camera, renderOptions |-> renderOptions]
    /\ container' = IF target = "app"
                    THEN Append(container, gridElement(lenses, camera, renderOptions))
                    ELSE container
    /\ aside' = IF target = "aside"
                THEN Append(aside, gridElement(lenses, camera, renderOptions))
                ELSE aside
    /\ head' = appendedTo(target, gridElement(lenses, camera, renderOptions),
                          injectStyles(head))

\* createGrid on the element with the id target.
createGridOn(target, lenses, camera, renderOptions) ==
    /\ gridArgs' = [lenses |-> lenses, camera |-> camera, renderOptions |-> renderOptions]
    /\ container' = IF target = "app" THEN <<gridElement(lenses, camera, renderOptions)>>
                    ELSE container
    /\ aside' = IF target = "aside" THEN <<gridElement(lenses, camera, renderOptions)>>
                ELSE aside
    /\ head' = appendedTo(target, gridElement(lenses, camera, renderOptions),
                          injectStyles(clearedOf(target, head)))

\* preview called without renderOptions: the default {} has none of the properties.
NoRenderOptions ==
    [cardWidth |-> Undefined, lensScale |-> Undefined, backgroundColorMapping |-> Undefined]

InitPreview ==
    /\ pc = "idle"
    /\ previewCall = NoCall
    /\ container = <<>>
    /\ aside = <<>>
    /\ head = <<>>
    /\ gridArgs = NoCall
    /\ polyArgs = NoCall
    /\ points = <<>>
    /\ heightArgs = NoCall
    /\ heights = <<>>
    /\ calls = <<>>
    /\ colorArgs = NoCall
    /\ color = NoCall
    /\ tables = <<>>
    /\ scraped = NoCall

\* A slip: the container is cleared as soon as it is found, before createGrid, and the
\* lenses are checked after that.
previewClearsFirst(elementId, lenses) ==
    /\ previewCall' = [elementId |-> elementId, lenses |-> lenses,
                       steps |-> previewSteps(elementId, lenses),
                       outcome |-> previewOutcome(elementId, lenses)]
    /\ IF previewOutcome(elementId, lenses) = "returned"
       THEN createGridOn(elementId, lenses.value.items,
                         enrichCameraConfig(DEFAULT_CAMERA_CONFIG), NoRenderOptions)
       ELSE /\ container' = IF elementId = "app" THEN <<>> ELSE container
            /\ aside' = IF elementId = "aside" THEN <<>> ELSE aside
            /\ UNCHANGED <<gridArgs, head>>
    /\ UNCHANGED <<pc, polyArgs, points, heightArgs, heights, calls, colorVars, tableVars>>

\* preview({ elementId, lenses }) with the default camera and render options.
preview(elementId, lenses) ==
    /\ previewCall' = [elementId |-> elementId, lenses |-> lenses,
                       steps |-> previewSteps(elementId, lenses),
                       outcome |-> previewOutcome(elementId, lenses)]
    /\ IF previewOutcome(elementId, lenses) = "returned"
       THEN createGridOn(elementId, lenses.value.items,
                         enrichCameraConfig(DEFAULT_CAMERA_CONFIG), NoRenderOptions)
       ELSE UNCHANGED <<gridArgs, container, aside, head>>
    /\ UNCHANGED <<pc, polyArgs, points, heightArgs, heights, calls, colorVars, tableVars>>

\* createGrid called directly on one of the two elements; no preview call is the latest.
createGridDirectly(target, lenses) ==
    /\ previewCall' = NoCall
    /\ createGridOn(target, lenses, enrichCameraConfig(DEFAULT_CAMERA_CONFIG), NoRenderOptions)
    /\ UNCHANGED <<pc, polyArgs, points, heightArgs, heights, calls, colorVars, tableVars>>

NextPreview ==
    \/ \E elementId \in ElementIdArguments, lenses \in LensesArguments :
           preview(elementId, lenses)
    \/ \E target \in ElementIds, lenses \in LensArrays \ {<<>>} :
           createGridDirectly(target, lenses)

SpecPreview == InitPreview /\ [][NextPreview]_vars

(***************************************************************************)
(* utils.ts: getLensesFromFirstQualifyingTable.  A table element is what   *)
(* the function reads of it: whether 'thead tr' selects a row, the text of *)
(* the th cells of that row, and for every 'tbody tr' the text of its td   *)
(* cells.  Texts are strings of a small universe; trim, toLowerCase,       *)
(* startsWith, parseFloat and split are tabulated on it.                   *)
(***************************************************************************)
HeaderStrings == {"Diameter (mm)", " length ", "Max diameter", "Model", "Owner"}

CellStrings ==
    {"", "62", " 136 ", "62mm", "abc", "Owned", "Wide", "owned; Wide ,owned", " , ",
     "Wide/owned|wide"}

\* str.trim()
trim(str) ==
    CASE str = " length " -> "length"
      [] str = " 136 " -> "136"
      [] str = " Wide " -> "Wide"
      [] str = " , " -> ","
      [] OTHER -> str

\* str.startsWith(prefix), for the lowercased header texts.
startsWith(str, prefix) ==
    <<str, prefix>> \in {<<"diameter (mm)", "diameter">>, <<"length", "length">>,
                         <<"model", "model">>, <<"owner", "owner">>}

\* parseFloat(str): the number the string begins with; the empty set is NaN.
parseFloat(str) ==
    CASE str = "0" -> {0}
      [] str = "62" -> {62}
      [] str = "136" -> {136}
      [] str = "62mm" -> {62}
      [] OTHER -> {}

isNaN(number) == number = {}

\* raw.split(/[,;|\/]/)
split(raw) ==
    CASE raw = "owned; Wide ,owned" -> <<"owned", " Wide ", "owned">>
      [] raw = "Wide/owned|wide" -> <<"Wide", "owned", "wide">>
      [] raw = "," -> <<"", "">>
      [] OTHER -> <<raw>>

\* value || fallback, for an optional string.
OrElse(value, fallback) == IF Truthy(value) THEN CHOOSE v \in value : TRUE ELSE fallback

\* The lowercased, trimmed texts of the th cells of the header row.
headersOf(table) ==
    [i \in 1..Len(table.headers) |-> toLowerCase(trim(table.headers[i]))]

\* headers.findIndex(h => h.startsWith(p) for one of the prefixes), counted from 0.
findIndex(headers, prefixes) ==
    IF \E i \in 1..Len(headers) : \E p \in prefixes : startsWith(headers[i], p)
    THEN (CHOOSE i \in 1..Len(headers) :
              /\ \E p \in prefixes : startsWith(headers[i], p)
              /\ \A j \in 1..(i - 1) : \A p \in prefixes : ~startsWith(headers[j], p)) - 1
    ELSE -1

\* The table has a header row with a diameter and a length header.
qualifies(table) ==
    /\ table.thead
    /\ findIndex(headersOf(table), {"diameter"}) # -1
    /\ findIndex(headersOf(table), {"length"}) # -1

\* A slip: the loop has no break, so the last qualifying table is kept.
qualifyingTableIndexLast(allTables) ==
    IF \E k \in 1..Len(allTables) : qualifies(allTables[k])
    THEN CHOOSE k \in 1..Len(allTables) :
             qualifies(allTables[k]) /\ \A j \in (k + 1)..Len(allTables) : ~qualifies(allTables[j])
    ELSE 0

\* The position of the table the loop stops at, 0 when it runs to the end.
qualifyingTableIndex(allTables) ==
    IF \E k \in 1..Len(allTables) : qualifies(allTables[k])
    THEN CHOOSE k \in 1..Len(allTables) :
             qualifies(allTables[k]) /\ \A j \in 1..(k - 1) : ~qualifies(allTables[j])
    ELSE 0

\* cells[index]?.textContent?.trim(), undefined where the row has no such cell.
cellText(cells, index) ==
    IF index + 1 \in 1..Len(cells) THEN {trim(cells[index + 1])} ELSE Undefined

\* The sequence without the empty strings (filter(Boolean)).
RECURSIVE filterBoolean(_)
filterBoolean(strs) ==
    IF strs = <<>> THEN <<>>
    ELSE IF Head(strs) = "" THEN filterBoolean(Tail(strs))
    ELSE <<Head(strs)>> \o filterBoolean(Tail(strs))

\* A slip: the tags are not passed through a Set.
dedupOmitted(strs) == strs

\* Array.from(new Set(strs)): the first occurrence of each string, in order.
dedup(strs) ==
    LET RECURSIVE firstOf(_)
        firstOf(k) ==
            IF k = 0 THEN <<>>
            ELSE IF \E j \in 1..(k - 1) : strs[j] = strs[k] THEN firstOf(k - 1)
            ELSE Append(firstOf(k - 1), strs[k])
    IN  firstOf(Len(strs))

\* The tags of a row: none without an ownership column or for an empty cell.
tagsOf(cells, ownershipIndex) ==
    LET raw == IF ownershipIndex # -1 THEN cellText(cells, ownershipIndex) ELSE Undefined
        parts == split(CHOOSE v \in raw : TRUE)
    IN  IF Truthy(raw)
        THEN dedup(filterBoolean([i \in 1..Len(parts) |-> toLowerCase(trim(parts[i]))]))
        ELSE <<>>

\* What the map callback makes of one row, before the isNaN check.
rowLens(cells, diameterIndex, lengthIndex, labelIndex, ownershipIndex) ==
    [diameter |-> parseFloat(OrElse(cellText(cells, diameterIndex), "0")),
     length |-> parseFloat(OrElse(cellText(cells, lengthIndex), "0")),
     label |-> IF labelIndex # -1 /\ Truthy(cellText(cells, labelIndex))
               THEN cellText(cells, labelIndex) ELSE Undefined,
     tags |-> tagsOf(cells, ownershipIndex)]

\* The lens returned for a row whose numbers are numbers.
returnedLens(parsed) ==
    [diameter |-> CHOOSE n \in parsed.diameter : TRUE,
     length |-> CHOOSE n \in parsed.length : TRUE,
     label |-> parsed.label,
     tags |-> parsed.tags]

Threw(message) == [outcome |-> message, lenses |-> <<>>]

\* A slip: a row whose diameter or length is not a number is left out.
lensesOfTableSkipping(table) ==
    LET headers == headersOf(table)
        parsed == [r \in 1..Len(table.rows) |->
                      rowLens(table.rows[r], findIndex(headers, {"diameter"}),
                              findIndex(headers, {"length"}),
                              findIndex(headers, {"model", "name", "label"}),
                              findIndex(headers, {"owner", "ownership", "owned"}))]
        RECURSIVE kept(_)
        kept(k) ==
            IF k = 0 THEN <<>>
            ELSE IF isNaN(parsed[k].diameter) \/ isNaN(parsed[k].length) THEN kept(k - 1)
            ELSE Append(kept(k - 1), returnedLens(parsed[k]))
    IN  [outcome |-> "returned", lenses |-> kept(Len(parsed))]

\* The rows of the qualifying table mapped to lenses; the callback throws at a row whose
\* diameter or length is NaN.
lensesOfTable(table) ==
    LET headers == headersOf(table)
        parsed == [r \in 1..Len(table.rows) |->
                      rowLens(table.rows[r], findIndex(headers, {"diameter"}),
                              findIndex(headers, {"length"}),
                              findIndex(headers, {"model", "name", "label"}),
                              findIndex(headers, {"owner", "ownership", "owned"}))]
    IN  IF \E r \in 1..Len(parsed) : isNaN(parsed[r].diameter) \/ isNaN(parsed[r].length)
        THEN Threw("Error: Invalid lens data in table")
        ELSE [outcome |-> "returned",
              lenses |-> [r \in 1..Len(parsed) |-> returnedLens(parsed[r])]]

getLensesFromFirstQualifyingTable(allTables) ==
    IF qualifyingTableIndex(allTables) = 0
    THEN Threw("Error: No qualifying table found")
    ELSE lensesOfTable(allTables[qualifyingTableIndex(allTables)])

\* The documents.  One family varies the tables and their header rows over bodies of
\* plain numbers; the second the rows of one qualifying table; the third its label and
\* ownership cells.
TableElement(thead, headers, rows) == [thead |-> thead, headers |-> headers, rows |-> rows]

HeaderRows ==
    {<<>>, <<"Diameter (mm)", " length ">>, <<" length ", "Diameter (mm)">>,
     <<"Diameter (mm)">>, <<" length ", "Model">>, <<"Max diameter", " length ">>,
     <<"Model", " length ", "Diameter (mm)">>}

PlainBodies == {<<<<"62", " 136 ", "62">>>>, <<<<" 136 ", "62", " 136 ">>, <<"62", "62", "62">>>>}

HeaderTables ==
    {TableElement(TRUE, h, b) : h \in HeaderRows, b \in PlainBodies}
    \cup {TableElement(FALSE, <<>>, b) : b \in PlainBodies}

NumberCells == {"", "62", " 136 ", "62mm", "abc"}

NumberRows == UNION {[1..k -> NumberCells] : k \in 0..2}

RowTables ==
    {TableElement(TRUE, h, b) :
        h \in {<<"Diameter (mm)", " length ">>, <<" length ", "Diameter (mm)">>},
        b \in UNION {[1..k -> NumberRows] : k \in 0..MaxRows}}

LabelledTables ==
    {TableElement(TRUE, <<"Owner", "Diameter (mm)", " length ", "Model">>,
                  <<<<o, "62", " 136 ", m>>>>) :
        o \in {"", "Owned", "owned; Wide ,owned", " , ", "Wide/owned|wide"},
        m \in {"", "abc"}}

Documents ==
    UNION {[1..k -> HeaderTables] : k \in 0..MaxTables}
    \cup {<<t>> : t \in RowTables \cup LabelledTables}

InitTable ==
    /\ pc = "call"
    /\ tables \in Documents
    /\ scraped = NoCall
    /\ polyArgs = NoCall
    /\ points = <<>>
    /\ heightArgs = NoCall
    /\ heights = <<>>
    /\ gridArgs = NoCall
    /\ container = <<>>
    /\ head = <<>>
    /\ calls = <<>>
    /\ colorArgs = NoCall
    /\ color = NoCall
    /\ aside = <<>>
    /\ previewCall = NoCall

\* One call of getLensesFromFirstQualifyingTable().
CallGetLensesFromFirstQualifyingTable ==
    /\ pc = "call"
    /\ scraped' = getLensesFromFirstQualifyingTable(tables)
    /\ pc' = "done"
    /\ UNCHANGED <<tables, polyArgs, points, heightArgs, heights, gridArgs, container, head,
                   calls, colorVars, previewVars>>

NextTable == CallGetLensesFromFirstQualifyingTable

SpecTable == InitTable /\ [][NextTable]_vars

(***************************************************************************)
(* index.ts: previewWithTableData.  The lenses are those of the document's *)
(* first qualifying table, read when preview calls the function it is      *)
(* passed; the render options are the caller's with the four built-in tag  *)
(* colours written over the caller's mapping.                              *)
(***************************************************************************)
\* { ...backgroundColorMapping, owned: ..., decommissioned: ..., shortlisted: ...,
\*   outgoing: ... } of the caller's render options (renderOptions || {}).
withBuiltInColors(renderOptions) ==
    LET backgroundColorMapping == Nullish(renderOptions.backgroundColorMapping, <<>>)
    IN  [renderOptions EXCEPT !.backgroundColorMapping =
            {Set(Set(Set(Set(backgroundColorMapping,
                             "owned", "#d1e7dd"),
                         "decommissioned", "#f8d7da"),
                     "shortlisted", "#cfe2ff"),
                 "outgoing", "#fff3cd")}]

\* The lenses argument previewWithTableData passes to preview: the function
\* getLensesFromFirstQualifyingTable, with what it does on this document.
tableLenses(allTables) ==
    LET read == getLensesFromFirstQualifyingTable(allTables)
    IN  [isFunction |-> TRUE,
         throws |-> read.outcome # "returned",
         value |-> IF read.outcome = "returned"
                   THEN [kind |-> "array", items |-> read.lenses]
                   ELSE [kind |-> "undefined", items |-> <<>>]]

\* The mappings a caller of previewWithTableData supplies: at most MaxMappingKeys entries,
\* no key twice, for a built-in tag name in either case and for another tag name.
TableDataKeys == {"owned", "Owned", "wide"}

TableDataColors == {"#000000", "#ffffff"}

TableDataMappings ==
    UNION {{m \in [1..k -> [key : TableDataKeys, value : TableDataColors]] :
                \A i, j \in 1..k : i # j => m[i].key # m[j].key} : k \in 0..MaxMappingKeys}

TableDataRenderOptions ==
    [cardWidth : {Undefined}, lensScale : {Undefined},
     backgroundColorMapping : {Undefined} \cup {{m} : m \in TableDataMappings}]

\* The documents: no table, a qualifying table without rows, and tables of one row that
\* is owned, tagged otherwise, or not tagged.
TaggedRows == {<<o, "62", " 136 ">> : o \in {"Owned", "Wide", ""}}

TableDataDocuments ==
    {<<>>}
    \cup {<<TableElement(TRUE, <<"Owner", "Diameter (mm)", " length ">>, rows)>> :
             rows \in UNION {[1..k -> TaggedRows] : k \in 0..1}}

InitTableData ==
    /\ pc = "idle"
    /\ tables \in TableDataDocuments
    /\ scraped = NoCall
    /\ previewCall = NoCall
    /\ container = <<>>
    /\ aside = <<>>
    /\ head = <<>>
    /\ gridArgs = NoCall
    /\ polyArgs = NoCall
    /\ points = <<>>
    /\ heightArgs = NoCall
    /\ heights = <<>>
    /\ calls = <<>>
    /\ colorArgs = NoCall
    /\ color = NoCall

\* previewWithTableData({ elementId, renderOptions }) with the default camera.
previewWithTableData(elementId, renderOptions) ==
    /\ previewCall' = [elementId |-> elementId, lenses |-> tableLenses(tables),
                       renderOptions |-> renderOptions,
                       steps |-> previewSteps(elementId, tableLenses(tables)),
                       outcome |-> previewOutcome(elementId, tableLenses(tables))]
    /\ scraped' = IF elementId = "" THEN scraped
                  ELSE getLensesFromFirstQualifyingTable(tables)
    /\ IF previewOutcome(elementId, tableLenses(tables)) = "returned"
       THEN createGridOn(elementId, tableLenses(tables).value.items,
                         enrichCameraConfig(DEFAULT_CAMERA_CONFIG),
                         withBuiltInColors(renderOptions))
       ELSE UNCHANGED <<gridArgs, container, aside, head>>
    /\ UNCHANGED <<pc, polyArgs, points, heightArgs, heights, calls, colorVars, tables>>

\* One previewWithTableData call on the document.
NextTableData ==
    /\ previewCall = NoCall
    /\ \E elementId \in {"", "app"}, renderOptions \in TableDataRenderOptions :
           previewWithTableData(elementId, renderOptions)

SpecTableData == InitTableData /\ [][NextTableData]_vars

(***************************************************************************)
(* The colouring of one card: createGrid enriches the render options it    *)
(* was given and applyCardStyles asks getBackgroundColor for the colour of *)
(* the lens's tags.                                                        *)
(***************************************************************************)
\* The values of a mapping: two colours and the empty string.
ColorValues == {"", "#d1e7dd", "#cfe2ff"}

\* The objects a caller can write as backgroundColorMapping: at most MaxMappingKeys
\* entries, no key twice.
ColorMappings ==
    UNION {{m \in [1..k -> [key : TagStrings, value : ColorValues]] :
                \A i, j \in 1..k : i # j => m[i].key # m[j].key} : k \in 0..MaxMappingKeys}

TagLists == UNION {[1..k -> TagStrings] : k \in 0..MaxTags}

ColorArgs ==
    [renderOptions : [cardWidth : {Undefined}, lensScale : {Undefined},
                      backgroundColorMapping : {Undefined} \cup {{m} : m \in ColorMappings}],
     tags : {Undefined} \cup {{t} : t \in TagLists}]

InitColor ==
    /\ pc = "call"
    /\ colorArgs \in ColorArgs
    /\ color = NoCall
    /\ polyArgs = NoCall
    /\ points = <<>>
    /\ heightArgs = NoCall
    /\ heights = <<>>
    /\ gridArgs = NoCall
    /\ container = <<>>
    /\ head = <<>>
    /\ calls = <<>>
    /\ aside = <<>>
    /\ previewCall = NoCall
    /\ tables = <<>>
    /\ scraped = NoCall

\* The background colour createGrid gives the card of a lens with these tags.
ColorCard ==
    /\ pc = "call"
    /\ color' = [value |-> getBackgroundColor(enrichRenderOptions(colorArgs.renderOptions),
                                              Nullish(colorArgs.tags, <<>>))]
    /\ pc' = "done"
    /\ UNCHANGED <<colorArgs, polyArgs, points, heightArgs, heights, gridArgs, container,
                   head, calls, previewVars, tableVars>>

NextColor == ColorCard

SpecColor == InitColor /\ [][NextColor]_vars

(***************************************************************************)
(* Repeated calls of the two pure functions.  A caller owns one set of     *)
(* polygon arguments (polyArgs) and one lens list with its render options  *)
(* (heightArgs), and calls calculateLensPolygon and                        *)
(* calculateNormalizedCardHeight in any order, on its own objects or on    *)
(* the objects of the specification's examples.  Neither function assigns  *)
(* to a parameter, to a property of one or to a variable outside itself    *)
(* (bumpCount and the constants are const); points and profile are created *)
(* anew by each call.  Neither contains a throw, so every call returns.    *)
(***************************************************************************)
\* A mount small enough for the bounded diameters to step over it.
SmallMountSpec == [stepDistance |-> 1, stepLength |-> 1, mountOuterDiameter |-> 5]

\* Each argument negative, zero and positive.
CallPolygonArgs ==
    [diameter : {-1, 0, MaxDiameter},
     length : {-1, 0, MaxLength},
     mountSpec : {SmallMountSpec,
                  [stepDistance |-> 0, stepLength |-> 0, mountOuterDiameter |-> 0],
                  [stepDistance |-> -1, stepLength |-> -1, mountOuterDiameter |-> -1]},
     lensScale : {-1, 0, 1},
     canvas : {[width |-> MaxCanvasWidth, height |-> MaxCanvasHeight]}]

CallHeightArgs ==
    [lenses : {<<Lens(MaxDiameter, -1)>>, <<Lens(MaxDiameter, 0), Lens(MaxDiameter, MaxBatchLength)>>},
     renderOptions : [cardWidth : {-1, 0, MaxCardWidth}, lensScale : {-1, 0, 1}]]

ExampleHeightArgs ==
    [lenses |-> ExampleBatch, renderOptions |-> [cardWidth |-> 300, lensScale |-> 1]]

InitCalls ==
    /\ pc = "call"
    /\ polyArgs \in CallPolygonArgs
    /\ heightArgs \in CallHeightArgs
    /\ calls = <<>>
    /\ points = <<>>
    /\ heights = <<>>
    /\ gridArgs = NoCall
    /\ container = <<>>
    /\ head = <<>>
    /\ colorArgs = NoCall
    /\ color = NoCall
    /\ aside = <<>>
    /\ previewCall = NoCall
    /\ tables = <<>>
    /\ scraped = NoCall

\* The record of one call that returned.
Returned(fn, args, result) == [fn |-> fn, args |-> args, result |-> result]

\* The result of the latest recorded call of fn, <<>> when there is none.
RECURSIVE LatestResult(_, _)
LatestResult(fn, k) ==
    IF k = 0 THEN <<>>
    ELSE IF calls[k].fn = fn THEN calls[k].result
    ELSE LatestResult(fn, k - 1)

\* A slip: points is declared once, outside the function, and every call pushes onto it.
RepeatCalculateLensPolygonSharedPoints(args) ==
    /\ pc = "call"
    /\ calls' = Append(calls,
                       Returned("calculateLensPolygon", args,
                                LatestResult("calculateLensPolygon", Len(calls))
                                \o calculateLensPolygon(args.diameter, args.length,
                                                        args.mountSpec, args.lensScale,
                                                        args.canvas.width, args.canvas.height)))
    /\ pc' = IF Len(calls) + 1 = MaxCalls THEN "done" ELSE "call"
    /\ UNCHANGED <<polyArgs, points, heightArgs, heights, gridArgs, container, head,
                   colorVars, previewVars, tableVars>>

\* One more call of calculateLensPolygon; the caller's objects are as they were.
RepeatCalculateLensPolygon(args) ==
    /\ pc = "call"
    /\ calls' = Append(calls,
                       Returned("calculateLensPolygon", args,
                                calculateLensPolygon(args.diameter, args.length,
                                                     args.mountSpec, args.lensScale,
                                                     args.canvas.width, args.canvas.height)))
    /\ pc' = IF Len(calls) + 1 = MaxCalls THEN "done" ELSE "call"
    /\ UNCHANGED <<polyArgs, points, heightArgs, heights, gridArgs, container, head,
                   colorVars, previewVars, tableVars>>

\* One more call of calculateNormalizedCardHeight; the caller's objects are as they were.
RepeatCalculateNormalizedCardHeight(args) ==
    /\ pc = "call"
    /\ calls' = Append(calls,
                       Returned("calculateNormalizedCardHeight", args,
                                calculateNormalizedCardHeight(args.lenses, args.renderOptions)))
    /\ pc' = IF Len(calls) + 1 = MaxCalls THEN "done" ELSE "call"
    /\ UNCHANGED <<polyArgs, points, heightArgs, heights, gridArgs, container, head,
                   colorVars, previewVars, tableVars>>

NextCalls ==
    \/ \E args \in {polyArgs, ExampleSteppedArgs} : RepeatCalculateLensPolygon(args)
    \/ \E args \in {heightArgs, ExampleHeightArgs} : RepeatCalculateNormalizedCardHeight(args)

SpecCalls == InitCalls /\ [][NextCalls]_vars

(***************************************************************************)
(* What the claims about calculateLensPolygon speak of, stated from the    *)
(* arguments of the call and the returned vertices alone.                  *)
(***************************************************************************)
PolygonDone == pc = "done"

ArgDiameter == polyArgs.diameter
ArgLength == polyArgs.length
ArgScale == polyArgs.lensScale
ArgMount == polyArgs.mountSpec.mountOuterDiameter
ArgStepSum == polyArgs.mountSpec.stepDistance + polyArgs.mountSpec.stepLength

\* Twice the x of the centre line, the y of the mount line and of the front line.
CenterX2 == polyArgs.canvas.width * Unit
MountLineY == polyArgs.canvas.height * Unit
FrontLineY == (polyArgs.canvas.height - ArgLength * ArgScale) * Unit

Abs(v) == IF v < 0 THEN 0 - v ELSE v

\* Twice the horizontal distance of a vertex from the centre line.
Dist2(p) == Abs(2 * p.x - CenterX2)

\* Diameter, length, mount diameter and scale are positive, the step is not negative.
PlausibleArgs ==
    /\ ArgDiameter > 0 /\ ArgLength > 0 /\ ArgMount > 0 /\ ArgScale > 0
    /\ polyArgs.mountSpec.stepDistance >= 0 /\ polyArgs.mountSpec.stepLength >= 0

\* The first stepped-down diameter (90% of the diameter) exceeds the mount diameter.
FirstStepClearsMount == 9 * ArgDiameter > 10 * ArgMount

\* The step fits in the length, both converted to pixels.
StepFitsPx == ArgStepSum * ArgScale < ArgLength * ArgScale

SteppingQualifies == ArgDiameter > ArgMount /\ FirstStepClearsMount /\ StepFitsPx

\* pts are the four corners of the axis-aligned rectangle of width widthPx centred on
\* the centre line, between the mount line and the front line, walked along its sides.
IsCenteredRectangle(pts, widthPx) ==
    /\ Len(pts) = 4
    /\ {<<2 * pts[i].x, pts[i].y>> : i \in 1..4}
           = {CenterX2 - widthPx, CenterX2 + widthPx} \X {MountLineY, FrontLineY}
    /\ \A i \in 1..4 :
           \/ pts[i].x = pts[(i % 4) + 1].x
           \/ pts[i].y = pts[(i % 4) + 1].y

\* pts is a stepped outline: more than four vertices, leaving the mount line at the
\* mount radius and reaching the full radius at the front line.
IsSteppedOutline(pts) ==
    /\ Len(pts) > 4
    /\ 2 * pts[1].x = CenterX2 - ArgMount * ArgScale * Unit
    /\ pts[1].y = MountLineY
    /\ \E i \in 1..Len(pts) :
           /\ 2 * pts[i].x = CenterX2 - ArgDiameter * ArgScale * Unit
           /\ pts[i].y = FrontLineY

\* C1: a lens no wider than the mount is returned as exactly four points, the
\* axis-aligned rectangle of width diameter*scale centred on x = canvasWidth/2 that
\* spans y = canvasHeight to y = canvasHeight - length*scale.
C1_NarrowLensIsFullRectangle ==
    (PolygonDone /\ ArgDiameter <= ArgMount)
        => IsCenteredRectangle(points, ArgDiameter * ArgScale * Unit)

\* The specification's example: 62 x 70 on a 62 mount, scale 1, canvas 300 x 300.
C1_Witness ==
    /\ PolygonDone
    /\ polyArgs = ExampleRectangleArgs
    /\ points[1] = Point((150 - 31) * Unit, 300 * Unit)
    /\ points[3] = Point((150 + 31) * Unit, 230 * Unit)

\* C2: a lens wider than the mount for which stepping does not qualify (90% of the
\* diameter does not exceed the mount diameter, or the step does not fit in the length)
\* is returned as the four-point rectangle whose half-width is the mount radius.
C2_UnsteppedWideLensIsMountRectangle ==
    (PolygonDone /\ ArgDiameter > ArgMount /\ (~FirstStepClearsMount \/ ~StepFitsPx))
        => IsCenteredRectangle(points, ArgMount * ArgScale * Unit)

\* A lens a little wider than the mount, long enough for the step, drawn at the mount
\* radius and not at its own.
C2_Witness ==
    /\ PolygonDone /\ PlausibleArgs
    /\ ArgDiameter > ArgMount /\ ~FirstStepClearsMount /\ StepFitsPx
    /\ Len(points) = 4
    /\ 2 * points[1].x = CenterX2 - ArgMount * ArgScale * Unit
    /\ 2 * points[1].x # CenterX2 - ArgDiameter * ArgScale * Unit

\* C3, as claimed: with the diameter and 90% of it above the mount diameter (scale > 0),
\* the polygon is stepped whenever stepDistance + stepLength does not exceed the length,
\* and the four-point rectangle whenever it exceeds the length.
C3_Original ==
    (PolygonDone /\ PlausibleArgs /\ ArgDiameter > ArgMount /\ FirstStepClearsMount)
        => /\ (ArgStepSum <= ArgLength) => IsSteppedOutline(points)
           /\ (ArgStepSum > ArgLength) => IsCenteredRectangle(points, ArgMount * ArgScale * Unit)

\* C3, amended: the polygon is stepped whenever stepDistance + stepLength is strictly
\* less than the length, and the four-point rectangle at the mount radius whenever it
\* equals or exceeds the length.
C3_SteppedIffStepStrictlyShorter ==
    (PolygonDone /\ ArgScale > 0 /\ ArgDiameter > ArgMount /\ FirstStepClearsMount)
        => /\ (ArgStepSum < ArgLength) => IsSteppedOutline(points)
           /\ (ArgStepSum >= ArgLength) => IsCenteredRectangle(points, ArgMount * ArgScale * Unit)

\* The boundary: the step takes exactly the whole length, and the rectangle is returned.
C3_Witness ==
    /\ PolygonDone /\ PlausibleArgs
    /\ ArgDiameter > ArgMount /\ FirstStepClearsMount
    /\ ArgStepSum = ArgLength
    /\ Len(points) = 4

\* C4: whenever stepping is applied, every vertex left of the centre line has a vertex
\* with the mirrored x and the same y, and the number of vertices is even and at least 8.
C4_SteppedPolygonIsSymmetric ==
    (PolygonDone /\ SteppingQualifies)
        => /\ \A i \in 1..Len(points) :
                  2 * points[i].x < CenterX2
                      => \E j \in 1..Len(points) :
                             /\ points[j].x = CenterX2 - points[i].x
                             /\ points[j].y = points[i].y
           /\ Len(points) % 2 = 0
           /\ Len(points) >= 8

\* The specification's example: 88 x 136 on the 62 mount, canvas 300 x 408, with the
\* mount corners at x = 150 - 31 and 150 + 31, y = 408.
C4_Witness ==
    /\ PolygonDone
    /\ polyArgs = ExampleSteppedArgs
    /\ SteppingQualifies
    /\ points[1] = Point((150 - 31) * Unit, 408 * Unit)
    /\ points[Len(points)] = Point((150 + 31) * Unit, 408 * Unit)

\* The largest horizontal distance (doubled) of a vertex from the centre line.
MaxDist2 == CHOOSE m \in {Dist2(points[i]) : i \in 1..Len(points)} :
                \A i \in 1..Len(points) : Dist2(points[i]) <= m

\* C5, as claimed: the first and the last vertex (the mount-end vertices) lie on the
\* mount line y = canvasHeight, and the vertices at the largest horizontal distance from
\* the centre line have y = canvasHeight - length*scale.  The mount-end vertices, which
\* the first half places, are not asked to be on the front line as well.
C5_Original ==
    (PolygonDone /\ PlausibleArgs)
        => /\ points[1].y = MountLineY
           /\ points[Len(points)].y = MountLineY
           /\ \A i \in 2..(Len(points) - 1) :
                  Dist2(points[i]) = MaxDist2 => points[i].y = FrontLineY

\* C5, amended: the first and the last vertex lie on the mount line, and with a mount
\* diameter that is not negative the largest horizontal distance from the centre line is
\* reached on the front line, by a vertex on either side of the centre line.
C5_MountLineAndWidestAtFront ==
    PolygonDone
        => /\ points[1].y = MountLineY
           /\ points[Len(points)].y = MountLineY
           /\ ArgMount >= 0
                  => /\ \E i \in 1..Len(points) :
                            /\ points[i].y = FrontLineY
                            /\ Dist2(points[i]) = MaxDist2
                            /\ 2 * points[i].x <= CenterX2
                     /\ \E i \in 1..Len(points) :
                            /\ points[i].y = FrontLineY
                            /\ Dist2(points[i]) = MaxDist2
                            /\ 2 * points[i].x >= CenterX2

\* A stepped lens whose last bump already has the full radius below the front line: the
\* widest vertices are the front corners and the end of the last bump.
C5_Witness ==
    /\ PolygonDone /\ PlausibleArgs /\ SteppingQualifies
    /\ \E i \in 1..Len(points) :
           Dist2(points[i]) = MaxDist2 /\ points[i].y = FrontLineY
    /\ \E i \in 1..Len(points) :
           Dist2(points[i]) = MaxDist2 /\ points[i].y # FrontLineY

(***************************************************************************)
(* Plane geometry on the returned vertices.                                *)
(***************************************************************************)
Sign(v) == IF v > 0 THEN 1 ELSE IF v < 0 THEN 0 - 1 ELSE 0

\* Twice the signed area of the triangle p, q, r.
Orient(p, q, r) == (q.x - p.x) * (r.y - p.y) - (q.y - p.y) * (r.x - p.x)

\* r lies on the closed segment from p to q.
OnSegment(p, q, r) ==
    /\ Orient(p, q, r) = 0
    /\ Min(p.x, q.x) <= r.x /\ r.x <= Max(p.x, q.x)
    /\ Min(p.y, q.y) <= r.y /\ r.y <= Max(p.y, q.y)

\* The segments a-b and c-d cross or overlap: they cross at a point inside both, or an
\* end of one lies on the other without being an end of it, or they are the same
\* segment.  Two segments that only share an end point do neither.
CrossOrOverlap(a, b, c, d) ==
    \/ /\ Sign(Orient(a, b, c)) * Sign(Orient(a, b, d)) < 0
       /\ Sign(Orient(c, d, a)) * Sign(Orient(c, d, b)) < 0
    \/ \E r \in {c, d} : OnSegment(a, b, r) /\ r \notin {a, b}
    \/ \E r \in {a, b} : OnSegment(c, d, r) /\ r \notin {c, d}
    \/ {a, b} = {c, d} /\ a # b

\* The vertex after vertex i on the closed outline.
After(pts, i) == pts[(i % Len(pts)) + 1]

\* No two non-adjacent edges of the closed outline cross or overlap.
NonSelfIntersecting(pts) ==
    \A i \in 1..Len(pts) : \A j \in (i + 2)..Len(pts) :
        (i = 1 /\ j = Len(pts))
            \/ ~CrossOrOverlap(pts[i], After(pts, i), pts[j], After(pts, j))

\* C6, as claimed: for every combination of arguments the closed outline is
\* non-self-intersecting.
C6_Original == PolygonDone => NonSelfIntersecting(points)

\* C6, amended: for positive diameter, length, mount diameter and scale and a step
\* distance and step length that are not negative, the closed outline is
\* non-self-intersecting.
C6_PlausibleOutlineIsSimple == (PolygonDone /\ PlausibleArgs) => NonSelfIntersecting(points)

\* A stepped outline with all its bumps, from plausible arguments.
C6_Witness ==
    /\ PolygonDone /\ PlausibleArgs /\ SteppingQualifies
    /\ Len(points) = 18
    /\ polyArgs.mountSpec.stepLength > 0
    /\ NonSelfIntersecting(points)

RECURSIVE FanArea2(_, _)
\* The sum of the doubled signed areas of the triangles pts[1], pts[i], pts[i+1], ...
FanArea2(pts, i) ==
    IF i >= Len(pts) THEN 0
    ELSE Orient(pts[1], pts[i], pts[i + 1]) + FanArea2(pts, i + 1)

\* Twice the signed (shoelace) area of the closed outline.
SignedArea2(pts) == FanArea2(pts, 2)

\* C7: every polygon is wound the same way: the first vertex is the back-left mount
\* corner, the vertices left of the centre line come before those right of it, the last
\* vertex is the back-right mount corner, and for positive diameter, length, mount
\* diameter and scale the signed area has one sign, in the rectangle and the stepped case.
C7_SameWinding ==
    (PolygonDone /\ ArgDiameter > 0 /\ ArgLength > 0 /\ ArgMount > 0 /\ ArgScale > 0)
        => /\ points[1].y = MountLineY /\ 2 * points[1].x < CenterX2
           /\ points[Len(points)].y = MountLineY /\ 2 * points[Len(points)].x > CenterX2
           /\ \A i, j \in 1..Len(points) :
                  (2 * points[i].x < CenterX2 /\ 2 * points[j].x > CenterX2) => i < j
           /\ SignedArea2(points) > 0

\* The stepped example of the specification, wound like the rectangles.
C7_Witness ==
    /\ PolygonDone
    /\ polyArgs = ExampleSteppedArgs
    /\ Len(points) = 18
    /\ SignedArea2(points) > 0

(***************************************************************************)
(* What the claims about calculateNormalizedCardHeight speak of.           *)
(***************************************************************************)
HeightsDone == pc = "done" /\ Len(heights) = 2

OptScale == heightArgs.renderOptions.lensScale
OptCardWidth == heightArgs.renderOptions.cardWidth

\* The largest lens length of batch k: a length of the batch no other length exceeds.
LongestOf(k) ==
    LET batch == heightArgs.batches[k]
    IN  CHOOSE l \in {batch[i].length : i \in 1..Len(batch)} :
            \A i \in 1..Len(batch) : batch[i].length <= l

\* h = ceil(max(1.2 * longest * lensScale, cardWidth)): h is an integer that is at least
\* both numbers, and h - 1 is below one of them.
IsCeilOfMaxWith(h, longest, lensScale, cardWidth) ==
    /\ 10 * h >= 12 * longest * lensScale
    /\ h >= cardWidth
    /\ \/ 10 * (h - 1) < 12 * longest * lensScale
       \/ h - 1 < cardWidth

IsCeilOfMax(h, longest) == IsCeilOfMaxWith(h, longest, OptScale, OptCardWidth)

\* C8: for every non-empty lens list the height is ceil(max(1.2 * maxLength * lensScale,
\* cardWidth)): never less than cardWidth, and the same for two lists with the same
\* maximum length.
C8_HeightIsCeilOfMax ==
    HeightsDone
        => /\ \A k \in 1..2 : IsCeilOfMax(heights[k], LongestOf(k))
           /\ \A k \in 1..2 : heights[k] >= OptCardWidth
           /\ LongestOf(1) = LongestOf(2) => heights[1] = heights[2]

\* The specification's example: lengths 70, 136, 193 at scale 1 and card width 300 give
\* 300, as does the single lens of length 193.
C8_Witness ==
    /\ HeightsDone
    /\ heightArgs.batches[1] = ExampleBatch
    /\ OptScale = 1 /\ OptCardWidth = 300
    /\ heights = <<300, 300>>

\* C9: for a fixed lensScale > 0 and a fixed cardWidth the height does not decrease when
\* the maximum lens length of the batch grows, and it is never less than cardWidth.
C9_HeightMonotoneInLongest ==
    (HeightsDone /\ OptScale > 0)
        => /\ LongestOf(1) <= LongestOf(2) => heights[1] <= heights[2]
           /\ LongestOf(2) <= LongestOf(1) => heights[2] <= heights[1]
           /\ heights[1] >= OptCardWidth /\ heights[2] >= OptCardWidth

\* Two batches of different maximum length whose heights differ, both above cardWidth.
C9_Witness ==
    /\ HeightsDone /\ OptScale > 0
    /\ Len(heightArgs.batches[1]) = 2
    /\ LongestOf(1) < LongestOf(2)
    /\ OptCardWidth < heights[1]
    /\ heights[1] < heights[2]

(***************************************************************************)
(* What the claims about createGrid speak of.                              *)
(***************************************************************************)
GridRendered == gridArgs # NoCall

\* The cards of the grid in the container.
Cards == container[1].children

\* The render options of the latest call with the defaults filled in.
GridScale ==
    IF gridArgs.renderOptions.lensScale = {} THEN 1
    ELSE CHOOSE v \in gridArgs.renderOptions.lensScale : TRUE

GridCardWidth ==
    IF gridArgs.renderOptions.cardWidth = {} THEN 300
    ELSE CHOOSE v \in gridArgs.renderOptions.cardWidth : TRUE

\* The largest lens length of the whole list of the latest call.
GridLongest ==
    CHOOSE l \in {gridArgs.lenses[i].length : i \in 1..Len(gridArgs.lenses)} :
        \A i \in 1..Len(gridArgs.lenses) : gridArgs.lenses[i].length <= l

\* C10: within one createGrid call every card is given the same height, the shared card
\* height of the whole lens list plus 60 px, whatever the length of its own lens.
C10_EveryCardHasSharedHeight ==
    GridRendered
        => /\ Len(container) = 1
           /\ Len(Cards) = Len(gridArgs.lenses)
           /\ \A i \in 1..Len(Cards) :
                  /\ Cards[i].lens = gridArgs.lenses[i]
                  /\ Cards[i].style.minHeight = Cards[1].style.minHeight
                  /\ IsCeilOfMaxWith(Cards[i].style.minHeight - 60, GridLongest,
                                     GridScale, GridCardWidth)

\* Two cards whose lenses differ in length, and so in the height of their lens SVG, with
\* the one height that the longer lens decides.
C10_Witness ==
    /\ GridRendered
    /\ Len(Cards) = 2
    /\ Cards[1].lens.length < Cards[2].lens.length
    /\ Cards[1].lensSvgHeight < Cards[2].lensSvgHeight
    /\ Cards[1].style.minHeight = Cards[2].style.minHeight
    /\ Cards[1].style.minHeight - 60 > GridCardWidth
    /\ Cards[1].style.minHeight - 60 = Cards[2].lensSvgHeight

(***************************************************************************)
(* What the claims about repeated calls speak of.                          *)
(***************************************************************************)
IsPolygonCall(k) == calls[k].fn = "calculateLensPolygon"
IsHeightCall(k) == calls[k].fn = "calculateNormalizedCardHeight"

\* Two recorded calls of the same function with the same arguments returned the same.
SameInputsSameOutput ==
    \A i, j \in 1..Len(calls) :
        (calls[i].fn = calls[j].fn /\ calls[i].args = calls[j].args)
            => calls[i].result = calls[j].result

\* A step leaves the caller's mountSpec, lens list and render options as they were.
InputsKept == polyArgs' = polyArgs /\ heightArgs' = heightArgs

NonPositive(v) == v <= 0

HasNonPositiveArgument(k) ==
    IF IsPolygonCall(k)
    THEN \/ NonPositive(calls[k].args.diameter)
         \/ NonPositive(calls[k].args.length)
         \/ NonPositive(calls[k].args.lensScale)
         \/ NonPositive(calls[k].args.mountSpec.stepDistance)
         \/ NonPositive(calls[k].args.mountSpec.stepLength)
         \/ NonPositive(calls[k].args.mountSpec.mountOuterDiameter)
    ELSE \/ NonPositive(calls[k].args.renderOptions.cardWidth)
         \/ NonPositive(calls[k].args.renderOptions.lensScale)
         \/ \E i \in 1..Len(calls[k].args.lenses) : NonPositive(calls[k].args.lenses[i].length)

\* A polygon: at least four vertices, each a pair of numbers.
IsPolygonValue(pts) ==
    /\ Len(pts) >= 4
    /\ \A i \in 1..Len(pts) : pts[i].x \in Int /\ pts[i].y \in Int

\* C12: for zero or negative diameter, length, step distance, step length, mount diameter,
\* scale or card width both functions still return: a polygon, or a height.
C12_TotalOverNumbers ==
    \A k \in 1..Len(calls) :
        HasNonPositiveArgument(k)
            => IF IsPolygonCall(k) THEN IsPolygonValue(calls[k].result)
               ELSE calls[k].result \in Int

\* A polygon for a negative diameter and scale, and a height for a negative card width.
C12_Witness ==
    /\ Len(calls) >= 2
    /\ IsPolygonCall(1)
    /\ calls[1].args.diameter < 0 /\ calls[1].args.lensScale < 0
    /\ calls[1].args.mountSpec.mountOuterDiameter < 0
    /\ IsPolygonValue(calls[1].result)
    /\ IsHeightCall(2)
    /\ calls[2].args.renderOptions.cardWidth < 0
    /\ calls[2].args.renderOptions.lensScale = 0
    /\ calls[2].result \in Int

(***************************************************************************)
(* What the claims about the card colour speak of.                         *)
(***************************************************************************)
Colored == pc = "done" /\ color # NoCall

\* The tags of the lens and the entries of the mapping the caller supplied.
GivenTags == IF colorArgs.tags = {} THEN <<>> ELSE CHOOSE t \in colorArgs.tags : TRUE

GivenMapping ==
    IF colorArgs.renderOptions.backgroundColorMapping = {} THEN <<>>
    ELSE CHOOSE m \in colorArgs.renderOptions.backgroundColorMapping : TRUE

\* Two strings are the same but for the case of their letters.
SameIgnoringCase(a, b) ==
    \/ a = b
    \/ {a, b} = {"owned", "Owned"}

\* The tag is in the mapping: it equals one of its keys but for letter case.
TagInMapping(tag) ==
    \E i \in 1..Len(GivenMapping) : SameIgnoringCase(tag, GivenMapping[i].key)

\* C13 (the part about the default): the default colour is used when the lens has no
\* tags, when none of its tags is in the mapping, or when no mapping was supplied.
C13_DefaultWhenNoTagMapped ==
    (Colored /\ \A k \in 1..Len(GivenTags) : ~TagInMapping(GivenTags[k]))
        => color.value = DEFAULT_BACKGROUND_COLOR

(***************************************************************************)
(* What the claims about preview and the stylesheet speak of.              *)
(***************************************************************************)
PreviewCalled == previewCall # NoCall

PreviewFailed == PreviewCalled /\ previewCall.outcome # "returned"

\* The lenses argument resolves to a list that can be rendered: a non-empty array.
ResolvesToUsableList(lenses) ==
    /\ ~(lenses.isFunction /\ lenses.throws)
    /\ lenses.value.kind = "array"
    /\ Len(lenses.value.items) > 0

\* The document has an element with this id.
ElementExists(id) == id \in ElementIds \/ \E i \in 1..Len(head) : head[i].id = id

Took(step) == \E i \in 1..Len(previewCall.steps) : previewCall.steps[i] = step

\* The latest preview call failed where it has to, without invoking a lenses function
\* for an empty elementId and without reaching createGrid.
FailsWhereRequired ==
    PreviewCalled =>
        /\ previewCall.elementId = "" => (PreviewFailed /\ ~Took("lenses()"))
        /\ ~ResolvesToUsableList(previewCall.lenses) => PreviewFailed
        /\ ~ElementExists(previewCall.elementId) => PreviewFailed
        /\ PreviewFailed => ~Took("createGrid")

\* A step that is a failing preview call leaves both elements and the head as they were.
FailureLeavesDocument ==
    (previewCall' # NoCall /\ previewCall'.outcome # "returned")
        => (container' = container /\ aside' = aside /\ head' = head)

\* C14: preview fails with an error for an empty elementId (before a lenses function is
\* invoked), for a lens list that is missing, not an array or empty, for a lenses function
\* that throws and for an id no element has; a failing call computes no sizing or geometry
\* and leaves the content of the elements and the stylesheets of the document unchanged.
C14_PreviewFailsFast == [](FailsWhereRequired) /\ [][FailureLeavesDocument]_vars

\* A lenses function threw in a call for an element that holds the grid of an earlier
\* call; the grid and the stylesheet are still there.
C14_Witness ==
    /\ PreviewFailed
    /\ previewCall.elementId = "app"
    /\ previewCall.lenses.isFunction /\ previewCall.lenses.throws
    /\ Took("lenses()")
    /\ Len(container) = 1
    /\ Len(container[1].children) = 1
    /\ Len(head) = 1
    /\ head[1].id = "lens-preview-styles"

\* The number of elements of the head with the id of the style element.
StyleCount == Cardinality({i \in 1..Len(head) : head[i].id = "lens-preview-styles"})

\* Some createGrid call, direct or through preview, has succeeded.
SomeCallSucceeded == gridArgs # NoCall

\* C15 as stated: after any sequence of calls there is at most one style element with id
\* 'lens-preview-styles', exactly one once a call has succeeded, and it is the one that
\* was injected, unchanged by the later calls.
C15_Original ==
    /\ StyleCount <= 1
    /\ SomeCallSucceeded => StyleCount = 1
    /\ \A i \in 1..Len(head) : head[i] = styleElement

\* A step is a preview call whose target is the style element itself.
TargetsStyleElement ==
    previewCall' # NoCall /\ previewCall'.elementId = "lens-preview-styles"

\* C15: after any sequence of calls there is at most one style element with id
\* 'lens-preview-styles' and exactly one once a call has succeeded; a later call adds no
\* second one, and leaves the first as it is unless its target is that style element.
C15_StyleInjectedOnce ==
    /\ [](StyleCount <= 1 /\ (SomeCallSucceeded => StyleCount = 1))
    /\ [][(head # <<>> /\ ~TargetsStyleElement) => head' = head]_vars

\* Grids were rendered into both elements and the head holds the one style element.
C15_Witness ==
    /\ Len(container) = 1
    /\ Len(aside) = 1
    /\ head = <<styleElement>>

(***************************************************************************)
(* What the claims about getLensesFromFirstQualifyingTable speak of,       *)
(* stated on the texts of the document as they are written.                *)
(***************************************************************************)
TableRead == pc = "done" /\ scraped # NoCall

\* The header texts that start with 'diameter' and with 'length', whatever their case and
\* the white space around them.
IsDiameterHeader(text) == text = "Diameter (mm)"
IsLengthHeader(text) == text = " length "

Qualifying(table) ==
    /\ table.thead
    /\ \E i \in 1..Len(table.headers) : IsDiameterHeader(table.headers[i])
    /\ \E i \in 1..Len(table.headers) : IsLengthHeader(table.headers[i])

SomeTableQualifies == \E k \in 1..Len(tables) : Qualifying(tables[k])

\* The first qualifying table in document order, and its diameter and length columns.
FirstQualifying ==
    tables[CHOOSE k \in 1..Len(tables) :
               Qualifying(tables[k]) /\ \A j \in 1..(k - 1) : ~Qualifying(tables[j])]

DiameterColumn ==
    CHOOSE i \in 1..Len(FirstQualifying.headers) :
        /\ IsDiameterHeader(FirstQualifying.headers[i])
        /\ \A j \in 1..(i - 1) : ~IsDiameterHeader(FirstQualifying.headers[j])

LengthColumn ==
    CHOOSE i \in 1..Len(FirstQualifying.headers) :
        /\ IsLengthHeader(FirstQualifying.headers[i])
        /\ \A j \in 1..(i - 1) : ~IsLengthHeader(FirstQualifying.headers[j])

\* The text of a cell of a row, "" where the row has no such cell.
CellAt(row, column) == IF column <= Len(row) THEN row[column] ELSE ""

\* The cell is a number, and nothing else but white space around it.
IsNumber(cell) == cell \in {"62", " 136 "}

\* The cell begins with a number, after white space.
BeginsWithNumber(cell) == cell \in {"62", " 136 ", "62mm"}

\* The cell is empty.
IsBlank(cell) == cell = ""

\* The number a cell is read as: the number it begins with, 0 for an empty cell.
ReadAs(cell) ==
    CASE cell = "" -> 0
      [] cell \in {"62", "62mm"} -> 62
      [] cell = " 136 " -> 136

\* Every cell of the diameter and length columns of the table read is a number.
AllNumbers ==
    \A r \in 1..Len(FirstQualifying.rows) :
        /\ IsNumber(CellAt(FirstQualifying.rows[r], DiameterColumn))
        /\ IsNumber(CellAt(FirstQualifying.rows[r], LengthColumn))

\* The lenses returned are those of the rows of the first qualifying table, in row order.
ReturnedRowsOfFirstQualifying ==
    /\ scraped.outcome = "returned"
    /\ Len(scraped.lenses) = Len(FirstQualifying.rows)
    /\ \A r \in 1..Len(FirstQualifying.rows) :
           /\ scraped.lenses[r].diameter
                  = ReadAs(CellAt(FirstQualifying.rows[r], DiameterColumn))
           /\ scraped.lenses[r].length
                  = ReadAs(CellAt(FirstQualifying.rows[r], LengthColumn))

\* C16: the function reads the first table in document order whose header row has a header
\* starting with 'diameter' and one starting with 'length', in any column order; tables
\* before it without a header row or without either header are skipped, tables after it
\* are not read, and the call throws when no table qualifies.
C16_FirstQualifyingTableIsRead ==
    TableRead =>
        IF SomeTableQualifies
        THEN /\ scraped.outcome # "Error: No qualifying table found"
             /\ AllNumbers => ReturnedRowsOfFirstQualifying
        ELSE scraped = [outcome |-> "Error: No qualifying table found", lenses |-> <<>>]

\* A table without a header row is skipped and the next one, with the length header
\* before the diameter header, is read.
C16_Witness ==
    /\ TableRead
    /\ Len(tables) = 2
    /\ ~tables[1].thead
    /\ tables[2].headers = <<"Model", " length ", "Diameter (mm)">>
    /\ tables[1].rows # tables[2].rows
    /\ Len(tables[2].rows) = 2
    /\ scraped.outcome = "returned"
    /\ scraped.lenses[1].diameter = 136 /\ scraped.lenses[1].length = 62
    /\ scraped.lenses[2].diameter = 62 /\ scraped.lenses[2].length = 62

AllReadable ==
    \A r \in 1..Len(FirstQualifying.rows) :
        /\ \/ IsBlank(CellAt(FirstQualifying.rows[r], DiameterColumn))
           \/ BeginsWithNumber(CellAt(FirstQualifying.rows[r], DiameterColumn))
        /\ \/ IsBlank(CellAt(FirstQualifying.rows[r], LengthColumn))
           \/ BeginsWithNumber(CellAt(FirstQualifying.rows[r], LengthColumn))

Stepped == PolygonDone /\ Len(points) > 4

\* The vertices where the transition of bump i starts and ends.
TransitionStart(i) == points[2 + 2 * i]
TransitionEnd(i) == points[3 + 2 * i]
StepEndVertex == points[3]
FrontLeftVertex == points[4 + 2 * bumpCount]

\* Twice the distance of a left-side vertex from the centre line.
LeftWidth2(p) == CenterX2 - 2 * p.x

\* The full diameter in pixels (twice the full radius), in units.
FullWidth == ArgDiameter * ArgScale * Unit

C19_FirstBumpIsInitialIntensity ==
    Stepped => 100 * LeftWidth2(TransitionEnd(1)) = 95 * FullWidth

\* Bump i's transition span: from the start to the end of its transition.
TransitionSpan(i) == TransitionStart(i).y - TransitionEnd(i).y

\* The length remaining after the step, in units.
RemainingLength == (ArgLength - ArgStepSum) * ArgScale * Unit

NonNegativeStep ==
    polyArgs.mountSpec.stepDistance >= 0 /\ polyArgs.mountSpec.stepLength >= 0

\* C20: with scale > 0 and stepDistance, stepLength >= 0 each bump's transition spans
\* min(5 mm * scale, 90% of the segment length), and from mount to front the y of the
\* left-side vertices never increases: backY >= stepStartY >= stepEndY >
\* transitionStart_1 >= transitionEnd_1 > transitionStart_2 >= ... >= frontY.
C20_TransitionsDoNotOverlap ==
    (Stepped /\ ArgScale > 0 /\ NonNegativeStep)
        => /\ \A i \in 1..bumpCount :
                  10 * (bumpCount + 1) * TransitionSpan(i)
                      = Min(10 * (bumpCount + 1) * 5 * ArgScale * Unit, 9 * RemainingLength)
           /\ points[1].y >= points[2].y
           /\ points[2].y >= StepEndVertex.y
           /\ StepEndVertex.y > TransitionStart(1).y
           /\ \A i \in 1..bumpCount : TransitionStart(i).y >= TransitionEnd(i).y
           /\ \A i \in 1..(bumpCount - 1) : TransitionEnd(i).y > TransitionStart(i + 1).y
           /\ TransitionEnd(bumpCount).y >= FrontLeftVertex.y
           /\ FrontLeftVertex.y = FrontLineY

\* A short lens: a segment is shorter than 5 mm, so the span is 90% of the segment and
\* the transition of the second bump starts above the end of the first.
C20_Witness ==
    /\ Stepped /\ ArgScale > 0 /\ NonNegativeStep
    /\ TransitionSpan(1) > 0
    /\ TransitionSpan(1) < 5 * ArgScale * Unit
    /\ 10 * (bumpCount + 1) * TransitionSpan(1) = 9 * RemainingLength
    /\ TransitionEnd(1).y > TransitionStart(2).y

\* The y of the step end: the step distance and the step length above the mount line.
StepEndLineY == MountLineY - ArgStepSum * ArgScale * Unit

\* C21: in the stepped polygon the length remaining after the step is divided into
\* bumpCount + 1 equal segments: bump i's transition ends exactly i segments above the
\* step end, and the last segment, from the final bump to the front of the lens, is at
\* the full radius.
C21_BumpsEndOnEqualSegments ==
    Stepped
        => /\ StepEndVertex.y = StepEndLineY
           /\ \A i \in 1..bumpCount :
                  (bumpCount + 1) * (StepEndLineY - TransitionEnd(i).y) = i * RemainingLength
           /\ (bumpCount + 1) * (TransitionEnd(bumpCount).y - FrontLeftVertex.y)
                  = RemainingLength
           /\ FrontLeftVertex.y = FrontLineY
           /\ LeftWidth2(TransitionEnd(bumpCount)) = FullWidth
           /\ LeftWidth2(FrontLeftVertex) = FullWidth

\* The 88 mm by 136 mm example: 111 px remain above the step end at y = 383, the bumps
\* end at y = 346 and y = 309, the front is at y = 272.
C21_Witness ==
    /\ Stepped
    /\ polyArgs = ExampleSteppedArgs
    /\ StepEndVertex.y = 383 * Unit
    /\ TransitionEnd(1).y = 346 * Unit
    /\ TransitionEnd(2).y = 309 * Unit
    /\ FrontLeftVertex.y = 272 * Unit

\* A vertex reflected about the centre line x = canvasWidth/2.
Mirrored(p) == Point(CenterX2 - p.x, p.y)

\* The positions of the vertices left and right of the centre line, in polygon order.
LeftPositions == {i \in 1..Len(points) : 2 * points[i].x < CenterX2}
RightPositions == {i \in 1..Len(points) : 2 * points[i].x > CenterX2}

\* The k-th smallest and the k-th largest member of a set of positions.
Smallest(S, k) == CHOOSE i \in S : Cardinality({j \in S : j < i}) = k - 1
Largest(S, k) == CHOOSE i \in S : Cardinality({j \in S : j > i}) = k - 1

\* C22, as claimed: read from the mount corner up to the front, the right-side vertices
\* are the left-side vertices reflected about canvasWidth/2, as many on each side.
C22_Original ==
    Stepped
        => /\ Cardinality(RightPositions) = Cardinality(LeftPositions)
           /\ \A k \in 1..Cardinality(LeftPositions) :
                  points[Largest(RightPositions, k)]
                      = Mirrored(points[Smallest(LeftPositions, k)])

\* The number of vertices the left side is given: the mount corner, the step start and
\* the profile.
LeftCount == 2 * bumpCount + 4

\* The left side read from the mount corner up, and the rest of the polygon, the right
\* side, read from the mount corner up as well.
LeftSide == [k \in 1..LeftCount |-> points[k]]
RightSide == [k \in 1..(Len(points) - LeftCount) |-> points[Len(points) + 1 - k]]

\* The left side with the step end and the front vertex each given twice in a row.
WithStepEndAndFrontTwice(side) ==
    <<side[1], side[2], side[3]>>
        \o [k \in 1..(Len(side) - 2) |-> side[k + 2]]
        \o <<side[Len(side)]>>

\* C22, amended: read from the mount corner up to the front, the right side is the left
\* side reflected about canvasWidth/2 with two vertices given twice in a row, the step
\* end and the front corner: two vertices more on the right than on the left, the same
\* points once the repetitions are dropped.
C22_RightSideMirrorsLeftWithRepeats ==
    Stepped
        => /\ Len(points) = 2 * LeftCount + 2
           /\ RightSide
                  = [k \in 1..(LeftCount + 2) |->
                        Mirrored(WithStepEndAndFrontTwice(LeftSide)[k])]

\* The 88 mm by 136 mm example: eight vertices on the left, ten on the right, the front
\* corner (194, 272) and the step end (189.6, 383) twice.
C22_Witness ==
    /\ Stepped
    /\ polyArgs = ExampleSteppedArgs
    /\ Cardinality(LeftPositions) = 8
    /\ Cardinality(RightPositions) = 10
    /\ points[9] = Point(194 * Unit, 272 * Unit)
    /\ points[10] = points[9]
    /\ 10 * points[15].x = 1896 * Unit
    /\ points[15].y = 383 * Unit
    /\ points[16] = points[15]

\* The distances (doubled) of the left-side vertices from the centre line, from the
\* mount corner up to the front.
LeftDistances == [k \in 1..LeftCount |-> Dist2(points[k])]

\* The sequence the claim names: the mount radius twice, the 90% radius, each bump
\* radius where its transition starts and ends, the full radius (all doubled, times 200
\* so that the percentages are whole).
NamedWidths ==
    <<200 * ArgMount * ArgScale * Unit, 200 * ArgMount * ArgScale * Unit,
      2 * 90 * FullWidth>>
        \o [k \in 1..(2 * bumpCount) |->
               IF k = 1 THEN 2 * 90 * FullWidth
               ELSE ((2 * 95 * bumpCount + (k \div 2) * 2 * (100 - 95)) * FullWidth)
                        \div bumpCount]
        \o <<200 * FullWidth>>

NonDecreasing(seq) == \A k \in 1..(Len(seq) - 1) : seq[k] <= seq[k + 1]

\* C26, as claimed: in the stepped polygon with scale > 0 the distances of the left-side
\* vertices from the centre line are the non-decreasing sequence mount radius, mount
\* radius, 90% radius, the bump radii, full radius, and the mount radius is strictly
\* smaller than the 90% radius.
C26_Original ==
    (Stepped /\ ArgScale > 0)
        => /\ Len(points) = 2 * LeftCount + 2
           /\ [k \in 1..LeftCount |-> 200 * LeftDistances[k]] = NamedWidths
           /\ NonDecreasing(LeftDistances)
           /\ LeftDistances[2] < LeftDistances[3]

\* C26, amended: the same with a mount diameter that is not negative.
C26_HalfWidthNeverDecreases ==
    (Stepped /\ ArgScale > 0 /\ ArgMount >= 0)
        => /\ Len(points) = 2 * LeftCount + 2
           /\ [k \in 1..LeftCount |-> 200 * LeftDistances[k]] = NamedWidths
           /\ NonDecreasing(LeftDistances)
           /\ LeftDistances[2] < LeftDistances[3]

\* A 10 mm lens on a 8 mm mount at scale 2: half-widths 8, 8, 9, 9, 9.75, 9.75, 10, 10.
C26_Witness ==
    /\ Stepped /\ ArgScale = 2 /\ ArgMount = 8 /\ ArgDiameter = 10
    /\ LeftDistances = <<16 * Unit, 16 * Unit, 18 * Unit, 18 * Unit,
                         (39 * Unit) \div 2, (39 * Unit) \div 2, 20 * Unit, 20 * Unit>>

\* The outline of the fallback: from the step start directly to the full radius at the
\* front, seven vertices in all.
IsDirectJump(pts) ==
    /\ Len(pts) = 7
    /\ 2 * pts[3].x = CenterX2 - FullWidth
    /\ pts[3].y = FrontLineY

\* C27: whenever the stepped branch is taken the length remaining after the step is
\* strictly positive, the full bump profile is emitted, and the outline is never the
\* fallback's direct jump from the step to the full radius at the front.
C27_FallbackNeverTaken ==
    Stepped
        => /\ RemainingLength > 0
           /\ ~IsDirectJump(points)
           /\ Len(points) = 2 * (2 * bumpCount + 2) + 6

\* The shortest remaining length: the lens is one unit of length longer than its step.
C27_Witness ==
    /\ Stepped /\ ArgScale = 1
    /\ ArgLength = ArgStepSum + 1
    /\ RemainingLength = Unit
    /\ Len(points) = 18
    /\ TransitionEnd(1).y < StepEndVertex.y

\* C28: for every input the polygon has exactly 4 vertices when stepping is not applied
\* and exactly 18 when it is; it is never empty and has no other number of vertices.
C28_FourOrEighteenVertices ==
    PolygonDone
        => /\ Len(points) \in {4, 18}
           /\ SteppingQualifies <=> Len(points) = 18
           /\ ~SteppingQualifies <=> Len(points) = 4

\* A stepped outline at a negative scale, where the step "fits" because both sides of
\* the comparison are negative: 18 vertices as well.
C28_Witness ==
    /\ PolygonDone /\ SteppingQualifies
    /\ ArgScale < 0
    /\ ArgLength < ArgStepSum
    /\ Len(points) = 18

(***************************************************************************)
(* What the claims about the lens canvas of a card speak of.               *)
(***************************************************************************)
\* h is ceil(1.2 * length * lensScale) for the lens of card i.
IsOwnSvgHeight(h, i) ==
    /\ 10 * (h - 1) < 12 * Cards[i].lens.length * GridScale
    /\ 12 * Cards[i].lens.length * GridScale <= 10 * h

\* The card height the cards of the grid were given: the min-height less the 60 px.
GivenCardHeight(i) == Cards[i].style.minHeight - 60

\* C29: for every lens of a batch with lensScale > 0 the height of the lens's own SVG
\* canvas, ceil(1.2 * length * lensScale), does not exceed the shared card height that
\* calculateNormalizedCardHeight computes for the batch and the card is given.
C29_LensCanvasFitsCardHeight ==
    (GridRendered /\ GridScale > 0)
        => \A i \in 1..Len(Cards) :
               /\ IsOwnSvgHeight(Cards[i].lensSvgHeight, i)
               /\ IsCeilOfMaxWith(GivenCardHeight(i), GridLongest, GridScale, GridCardWidth)
               /\ Cards[i].lensSvgHeight <= GivenCardHeight(i)

\* Two lenses of lengths 1 and 4 at scale 2 on cards 1 px wide: canvases of 3 px and of
\* 10 px, the second as high as the card height of 10 px.
C29_Witness ==
    /\ GridRendered /\ GridScale = 2 /\ GridCardWidth = 1
    /\ Len(Cards) = 2
    /\ Cards[1].lens.length = 1 /\ Cards[2].lens.length = 4
    /\ Cards[1].lensSvgHeight = 3
    /\ Cards[2].lensSvgHeight = 10
    /\ GivenCardHeight(1) = 10

\* The step distance and the step length of the camera's mount are not negative.
GridStepNonNegative ==
    /\ gridArgs.camera.mountSpec.stepDistance >= 0
    /\ gridArgs.camera.mountSpec.stepLength >= 0

\* The y of the vertices of card i's polygon.
VertexYs(i) == {Cards[i].points[k].y : k \in 1..Len(Cards[i].points)}

\* C30: in a rendered card whose lens has length > 0, with lensScale > 0 and
\* stepDistance, stepLength >= 0, every vertex of the lens polygon has
\* 0 <= y <= canvasHeight = ceil(1.2 * length * lensScale), the front of the lens being
\* at y = canvasHeight - length*lensScale >= 0.
C30_VerticesInsideCanvas ==
    (GridRendered /\ GridScale > 0 /\ GridStepNonNegative)
        => \A i \in 1..Len(Cards) :
               Cards[i].lens.length > 0
                   => /\ IsOwnSvgHeight(Cards[i].lensSvgHeight, i)
                      /\ \A y \in VertexYs(i) :
                             0 <= y /\ y <= Cards[i].lensSvgHeight * Unit
                      /\ (Cards[i].lensSvgHeight - Cards[i].lens.length * GridScale) * Unit
                             \in VertexYs(i)
                      /\ \A y \in VertexYs(i) :
                             y >= (Cards[i].lensSvgHeight - Cards[i].lens.length * GridScale)
                                      * Unit
                      /\ Cards[i].lensSvgHeight - Cards[i].lens.length * GridScale >= 0

\* A stepped lens of length 4 at scale 2 in a canvas 10 px high: the mount at y = 10,
\* the front at y = 2, the step end between them.
C30_Witness ==
    /\ GridRendered /\ GridScale = 2 /\ GridStepNonNegative
    /\ gridArgs.camera.mountSpec.stepDistance = 1
    /\ gridArgs.camera.mountSpec.stepLength = 1
    /\ Cards[1].lens.length = 4
    /\ Cards[1].lensSvgHeight = 10
    /\ Len(Cards[1].points) = 18
    /\ Cards[1].points[1].y = 10 * Unit
    /\ Cards[1].points[3].y = 6 * Unit
    /\ Cards[1].points[8].y = 2 * Unit

(***************************************************************************)
(* What the claim about the tags of a table row speaks of.                 *)
(***************************************************************************)
\* The header texts that start with 'owner', 'ownership' or 'owned'.
IsOwnershipHeader(text) == text = "Owner"

HasOwnershipColumn ==
    \E i \in 1..Len(FirstQualifying.headers) : IsOwnershipHeader(FirstQualifying.headers[i])

OwnershipColumn ==
    CHOOSE i \in 1..Len(FirstQualifying.headers) :
        /\ IsOwnershipHeader(FirstQualifying.headers[i])
        /\ \A j \in 1..(i - 1) : ~IsOwnershipHeader(FirstQualifying.headers[j])

\* The names an ownership cell lists between its commas, semicolons, pipes and slashes,
\* as written but for the white space around them, the empty ones left out.
NamesIn(cell) ==
    CASE cell = "Owned" -> <<"Owned">>
      [] cell = "owned; Wide ,owned" -> <<"owned", "Wide", "owned">>
      [] cell = "Wide/owned|wide" -> <<"Wide", "owned", "wide">>
      [] OTHER -> <<>>

\* The strings that are lowercase, without white space around them, and not empty.
IsCleanTag(tag) == tag \in {"owned", "wide"}

\* The names a and b differ in letter case at most.
SameName(a, b) == a = b \/ {a, b} = {"Owned", "owned"} \/ {a, b} = {"Wide", "wide"}

\* The position at which a name first occurs in a list of names, whatever its case.
FirstOccurrence(names, tag) ==
    CHOOSE k \in 1..Len(names) :
        SameName(names[k], tag) /\ \A j \in 1..(k - 1) : ~SameName(names[j], tag)

\* The tags are those of the ownership cell: clean, without duplicates, one for each name
\* of the cell, in the order in which the names first occur.
TagsOfCell(tags, cell) ==
    /\ \A k \in 1..Len(tags) : IsCleanTag(tags[k])
    /\ \A j, k \in 1..Len(tags) : j # k => tags[j] # tags[k]
    /\ \A k \in 1..Len(tags) : \E n \in 1..Len(NamesIn(cell)) : SameName(NamesIn(cell)[n], tags[k])
    /\ \A n \in 1..Len(NamesIn(cell)) : \E k \in 1..Len(tags) : SameName(NamesIn(cell)[n], tags[k])
    /\ \A j, k \in 1..Len(tags) :
           j < k => FirstOccurrence(NamesIn(cell), tags[j]) < FirstOccurrence(NamesIn(cell), tags[k])

\* C23: for every table row the tags read from the ownership cell (split on comma,
\* semicolon, pipe or slash) are lowercase, trimmed and non-empty, without duplicates, in
\* the order of first occurrence in the cell; a row with no ownership column or an empty
\* ownership cell has an empty tag list.
C23_TagsAreCleanAndOrdered ==
    (TableRead /\ scraped.outcome = "returned")
        => \A r \in 1..Len(scraped.lenses) :
               IF HasOwnershipColumn
               THEN /\ TagsOfCell(scraped.lenses[r].tags,
                                  CellAt(FirstQualifying.rows[r], OwnershipColumn))
                    /\ IsBlank(CellAt(FirstQualifying.rows[r], OwnershipColumn))
                           => scraped.lenses[r].tags = <<>>
               ELSE scraped.lenses[r].tags = <<>>

\* The cell 'Wide/owned|wide' gives the tags wide, owned.
C23_Witness ==
    /\ TableRead /\ scraped.outcome = "returned"
    /\ HasOwnershipColumn
    /\ CellAt(FirstQualifying.rows[1], OwnershipColumn) = "Wide/owned|wide"
    /\ scraped.lenses[1].tags = <<"wide", "owned">>

(***************************************************************************)
(* What the claim about repeated preview calls speaks of.                  *)
(***************************************************************************)
\* The ids of the elements preview can render into.
TargetIds == ElementIds \cup {"lens-preview-styles"}

\* The children of the element with the given id (none while the document has no such
\* element).
ContentOf(id) ==
    IF id = "app" THEN container
    ELSE IF id = "aside" THEN aside
    ELSE IF \E i \in 1..Len(head) : head[i].id = id
         THEN head[CHOOSE i \in 1..Len(head) : head[i].id = id].children
         ELSE <<>>

PreviewSucceeded == PreviewCalled /\ previewCall.outcome = "returned"

\* The element holds exactly one grid, with one card per lens of the list, in its order.
HoldsOneGridOf(content, lenses) ==
    /\ Len(content) = 1
    /\ content[1].className = "lens-preview-grid"
    /\ Len(content[1].children) = Len(lenses)
    /\ \A i \in 1..Len(lenses) : content[1].children[i].lens = lenses[i]

\* After a successful preview call its target holds one grid of that call's lenses.
LatestCallRendered ==
    PreviewSucceeded
        => HoldsOneGridOf(ContentOf(previewCall.elementId), previewCall.lenses.value.items)

\* A preview call that fails or that targets another element leaves the element as it is.
OtherCallsKeep ==
    \A id \in TargetIds :
        (previewCall' # NoCall
            /\ ~(previewCall'.outcome = "returned" /\ previewCall'.elementId = id))
            => ContentOf(id)' = ContentOf(id)

\* C24: after any sequence of successful preview calls targeting the same element, that
\* element contains exactly one grid, whose cards are one per lens of the most recent of
\* those calls, in the order of its lens list; nothing earlier calls rendered remains.
C24_ElementHoldsLatestGrid == [](LatestCallRendered) /\ [][OtherCallsKeep]_vars

\* A second successful call on 'app', with the list of two lenses, after a first one
\* rendered there: the one grid has the two cards of the second call, in its order.
C24_Witness ==
    /\ PreviewSucceeded
    /\ previewCall.elementId = "app"
    /\ previewCall.lenses.value.items = <<Lens(88, 136), Lens(62, 70)>>
    /\ Len(container) = 1
    /\ Len(container[1].children) = 2
    /\ container[1].children[1].lens = Lens(88, 136)
    /\ container[1].children[2].lens = Lens(62, 70)
    /\ Len(aside) = 1
    /\ Len(head) = 1

(***************************************************************************)
(* What the claim about the colours of previewWithTableData speaks of.     *)
(***************************************************************************)
TableDataRendered ==
    /\ previewCall # NoCall
    /\ previewCall.outcome = "returned"
    /\ Len(container) = 1

\* The mapping the caller supplied.
CallerMapping ==
    IF previewCall.renderOptions.backgroundColorMapping = {} THEN <<>>
    ELSE CHOOSE m \in previewCall.renderOptions.backgroundColorMapping : TRUE

\* The colour the caller gave the tag name 'wide', if any.
CallerHasWide == \E k \in 1..Len(CallerMapping) : CallerMapping[k].key = "wide"
CallerWide == CallerMapping[CHOOSE k \in 1..Len(CallerMapping) : CallerMapping[k].key = "wide"].value

\* The caller gave an entry for the built-in tag name 'owned', in some letter case.
CallerNamesOwned ==
    \E k \in 1..Len(CallerMapping) : CallerMapping[k].key \in {"owned", "Owned"}

\* C25: in previewWithTableData the built-in tag colours always take effect: a
\* caller-supplied entry for one of those tag names, in any letter case, never replaces
\* the built-in colour (an owned lens is light green, #d1e7dd), while the caller's
\* entries for other tag names are kept unchanged.
C25_BuiltInColorsTakeEffect ==
    TableDataRendered
        => \A i \in 1..Len(Cards) :
               /\ Cards[i].lens.tags = <<"owned">>
                      => Cards[i].style.backgroundColor = "#d1e7dd"
               /\ (Cards[i].lens.tags = <<"wide">> /\ CallerHasWide)
                      => Cards[i].style.backgroundColor = CallerWide
               /\ (Cards[i].lens.tags = <<"wide">> /\ ~CallerHasWide)
                      => Cards[i].style.backgroundColor = DEFAULT_BACKGROUND_COLOR

====
